---------------------------- MODULE Spec2Model ----------------------------
(***************************************************************************)
(* A model of the Heimdall monitor: the alert ledger and session batcher   *)
(* of heimdall/alerts.py (AlertManager) and the metric sweep of            *)
(* heimdall/monitor.py (ServerMonitor.check_server).                       *)
(*                                                                         *)
(* Strings are sequences of one-character strings, so that concatenation,  *)
(* str.lower() and str.split() are computed and not assumed.  The MD5      *)
(* digest of get_alert_id is taken to be collision free: an alert id is    *)
(* represented by the string that is digested.                             *)
(*                                                                         *)
(* The clock counts ticks of 1/TicksPerSecond second: datetime.now() has   *)
(* sub-second resolution, the "%Y-%m-%d %H:%M:%S" strings of the ledger    *)
(* have not.  A timestamp string is represented by its number of seconds.  *)
(***************************************************************************)
EXTENDS Integers, Sequences, FiniteSets, TLC

VARIABLES
    clock,                    \* datetime.now(), in ticks
    email_enabled,            \* config['email']['enabled']
    telegram_configured,      \* TelegramBot.is_configured()
    active_alerts,            \* alert_status["active_alerts"]
    resolved_alerts,          \* alert_status["resolved_alerts"]
    status_file,              \* the content of alert_status.json
    session_active,
    session_new_alerts,
    session_recurring_alerts,
    session_resolved_alerts,
    last,                     \* what the latest call did and returned
    decided,                  \* history: alert id -> clock of its latest
                              \* should-notify decision
    sweep,                    \* position of ServerMonitor in its sweep
    writable,                 \* open(ALERT_STATUS_FILE, 'w') succeeds
    subscribers,              \* TelegramBot.subscribers
    config_subscribers,       \* config.json: telegram.subscribers
    last_update_id,           \* TelegramBot.last_update_id
    processed,                \* history: the update ids handed to
                              \* process_update, in order
    tg,                       \* what the latest call of the bot sent
    bcast,                    \* the main thread inside a broadcast loop
    upd,                      \* the polling thread inside an update
    bots,                     \* the TelegramBot objects of the process,
                              \* each with its polling thread
    stopping                  \* the latest stop_polling call

configVars  == <<email_enabled, telegram_configured>>
ledgerVars  == <<active_alerts, resolved_alerts, status_file>>
sessionVars == <<session_active, session_new_alerts,
                 session_recurring_alerts, session_resolved_alerts>>
historyVars == <<last, decided>>
envVars == <<writable>>
threadVars == <<bcast, upd, bots, stopping>>
botVars == <<subscribers, config_subscribers, last_update_id, processed,
            tg, threadVars>>
vars == <<clock, configVars, ledgerVars, sessionVars, historyVars, sweep,
          envVars, botVars>>

---------------------------------------------------------------------------
(* Bounds of the model *)

TicksPerSecond == 2
\* config 'alert_cooldown' (hours in the program), here in seconds
CooldownSeconds == 1
MaxClock == 2
MaxQueue == 2

---------------------------------------------------------------------------
(* Strings *)

UpperCase == <<"A","B","C","D","E","F","G","H","I","J","K","L","M",
               "N","O","P","Q","R","S","T","U","V","W","X","Y","Z">>
LowerCase == <<"a","b","c","d","e","f","g","h","i","j","k","l","m",
               "n","o","p","q","r","s","t","u","v","w","x","y","z">>

ToLower ==
    [c \in {UpperCase[i] : i \in 1..Len(UpperCase)} |->
        LowerCase[CHOOSE i \in 1..Len(UpperCase) : UpperCase[i] = c]]

LowerChar(c) == IF c \in DOMAIN ToLower THEN ToLower[c] ELSE c

\* str.lower()
Lower(s) == [i \in 1..Len(s) |-> LowerChar(s[i])]

IsSpace(c) == c = " "

RECURSIVE SkipSpaces(_, _)
SkipSpaces(s, i) ==
    IF i > Len(s) \/ ~IsSpace(s[i]) THEN i ELSE SkipSpaces(s, i + 1)

RECURSIVE WordEnd(_, _)
WordEnd(s, i) ==
    IF i > Len(s) \/ IsSpace(s[i]) THEN i - 1 ELSE WordEnd(s, i + 1)

\* message.split()[0]: the first maximal run of non-blank characters
\* (Python raises IndexError when there is none; no caller passes such a
\* message)
FirstWord(s) == SubSeq(s, SkipSpaces(s, 1), WordEnd(s, SkipSpaces(s, 1)))

\* "%Y-%m-%d %H:%M:%S": the sub-second part of the clock is dropped
Strftime(t) == t \div TicksPerSecond

\* datetime.strptime of such a string
Strptime(str) == str * TicksPerSecond

---------------------------------------------------------------------------
(* Dictionaries (functions with a finite domain) *)

DictSet(d, k, v) == [x \in DOMAIN d \cup {k} |-> IF x = k THEN v ELSE d[x]]

DictDel(d, k) == [x \in DOMAIN d \ {k} |-> d[x]]

EmptyDict == [x \in {} |-> 0]

---------------------------------------------------------------------------
(* AlertManager: the ledger *)

None == <<>>

\* the alert status as json.dump writes it
AlertStatus(active, resolved) ==
    [active_alerts |-> active, resolved_alerts |-> resolved]

\* f"{nickname}:{hostname}:{alert_type}", digested
get_alert_id(nickname, hostname, alert_type) ==
    nickname \o <<":">> \o hostname \o <<":">> \o alert_type

\* format_open_alerts_text and format_open_alerts_html: the alerts listed
\* in a payload, by their ids. Every active alert is listed, but for those
\* of the server, hostname and type of the active alert exclude_alert_id
OpenAlerts(active, exclude_alert_id) ==
    IF exclude_alert_id # None /\ exclude_alert_id \in DOMAIN active
    THEN {id \in DOMAIN active :
            ~(/\ active[id].server = active[exclude_alert_id].server
              /\ active[id].hostname = active[exclude_alert_id].hostname
              /\ active[id].type = active[exclude_alert_id].type)}
    ELSE DOMAIN active

\* send_alert: "if not alert_type: alert_type = message.split()[0].lower()"
EffectiveAlertType(message, alert_type) ==
    IF alert_type = None THEN Lower(FirstWord(message)) ELSE alert_type

\* a record that starts with last_notified at the epoch
NewAlertRecordUnnotified(nickname, hostname, alert_type, message, now_str) ==
    [server         |-> nickname,
     hostname       |-> hostname,
     type           |-> alert_type,
     message        |-> message,
     first_detected |-> now_str,
     last_detected  |-> now_str,
     last_notified  |-> 0]

\* the record send_alert stores for a new alert
NewAlertRecord(nickname, hostname, alert_type, message, now_str) ==
    [server         |-> nickname,
     hostname       |-> hostname,
     type           |-> alert_type,
     message        |-> message,
     first_detected |-> now_str,
     last_detected  |-> now_str,
     last_notified  |-> now_str]

\* a rate limit that compares the elapsed ticks with the cooldown in seconds
CooldownElapsedInTicks(now, last_notified) ==
    now - Strptime(last_notified) >= CooldownSeconds

\* the rate limit of send_alert:
\* (now - last_notified).total_seconds() / 3600 >= alert_cooldown
CooldownElapsed(now, last_notified) ==
    now - Strptime(last_notified) >= CooldownSeconds * TicksPerSecond

\* should_send_email, as send_alert decides it
ShouldSend(active, alert_id, now) ==
    \/ alert_id \notin DOMAIN active
    \/ CooldownElapsed(now, active[alert_id].last_notified)

\* a bookkeeping that leaves last_notified alone
ObservedActiveUnstamped(active, alert_id, record, now) ==
    IF alert_id \notin DOMAIN active
    THEN DictSet(active, alert_id, record)
    ELSE [active EXCEPT ![alert_id].last_detected = Strftime(now)]

\* a bookkeeping that leaves last_detected alone
ObservedActiveUndetected(active, alert_id, record, now) ==
    IF alert_id \notin DOMAIN active
    THEN DictSet(active, alert_id, record)
    ELSE [active EXCEPT
            ![alert_id].last_notified =
                IF now - Strptime(@) >= CooldownSeconds * TicksPerSecond
                THEN Strftime(now) ELSE @]

\* a bookkeeping that stores the record of the latest observation
ObservedActiveRewritten(active, alert_id, record, now) ==
    DictSet(active, alert_id, record)

\* active_alerts after the bookkeeping of send_alert
ObservedActive(active, alert_id, record, now) ==
    IF alert_id \notin DOMAIN active
    THEN DictSet(active, alert_id, record)
    ELSE [active EXCEPT
            ![alert_id].last_detected = Strftime(now),
            ![alert_id].last_notified =
                IF CooldownElapsed(now, @) THEN Strftime(now) ELSE @]

\* a bookkeeping that keeps the resolved record of a recurring alert
ObservedResolvedKept(active, resolved, alert_id) == resolved

\* resolved_alerts after the bookkeeping of send_alert
ObservedResolved(active, resolved, alert_id) ==
    IF alert_id \notin DOMAIN active /\ alert_id \in DOMAIN resolved
    THEN DictDel(resolved, alert_id)
    ELSE resolved

\* a reset that leaves the cooldown of every alert as it is
reset_no_alert_cooldowns(active, current_time_str) == active

\* a reset that also marks every active alert as detected
reset_all_alert_timestamps(active, current_time_str) ==
    [a \in DOMAIN active |->
        [active[a] EXCEPT !.last_notified = current_time_str,
                          !.last_detected = current_time_str]]

reset_all_alert_cooldowns(active, current_time_str) ==
    [a \in DOMAIN active |->
        [active[a] EXCEPT !.last_notified = current_time_str]]

\* a reset that is applied whether or not a channel succeeded
AfterDeliveryAlways(active, sent, current_time_str) ==
    reset_all_alert_cooldowns(active, current_time_str)

\* active_alerts after a delivery attempt: the cooldown of every active
\* alert is reset when a channel succeeded
AfterDelivery(active, sent, current_time_str) ==
    IF sent THEN reset_all_alert_cooldowns(active, current_time_str)
    ELSE active

\* the subject prefix of _send_email_alert and the heading of
\* TelegramBot.send_alert_to_all
AlertHeading(is_new_alert) ==
    IF is_new_alert THEN "NEW ALERT" ELSE "RECURRING ALERT"

\* the session list send_alert queues a due alert to
SessionListOf(is_new_alert) ==
    IF is_new_alert THEN "new" ELSE "recurring"

\* deliveries that stop at the first channel that succeeded
DeliveriesUntilSuccess(heading, email_ok, telegram_ok) ==
    (IF email_enabled
     THEN <<[channel |-> "email", heading |-> heading, ok |-> email_ok]>>
     ELSE <<>>)
    \o
    (IF telegram_configured /\ ~(email_enabled /\ email_ok)
     THEN <<[channel |-> "telegram", heading |-> heading, ok |-> telegram_ok]>>
     ELSE <<>>)

\* the deliveries of one notification: email if enabled, then Telegram if
\* configured; email_ok and telegram_ok are what the channels answer
Deliveries(heading, email_ok, telegram_ok) ==
    (IF email_enabled
     THEN <<[channel |-> "email", heading |-> heading, ok |-> email_ok]>>
     ELSE <<>>)
    \o
    (IF telegram_configured
     THEN <<[channel |-> "telegram", heading |-> heading, ok |-> telegram_ok]>>
     ELSE <<>>)

\* an immediate notification that ignores the session
ImmediateSendsInSession(should_send, in_session, heading, email_ok, telegram_ok) ==
    IF should_send THEN Deliveries(heading, email_ok, telegram_ok) ELSE <<>>

\* the immediate notification of send_alert:
\* "if should_send_email and not self.session_active"
ImmediateSends(should_send, in_session, heading, email_ok, telegram_ok) ==
    IF should_send /\ ~in_session
    THEN Deliveries(heading, email_ok, telegram_ok)
    ELSE <<>>

AnySent(sends) == \E i \in 1..Len(sends) : sends[i].ok

\* the session lists are kept within the bound of the model
QueueHasRoom ==
    Len(session_new_alerts) + Len(session_recurring_alerts)
        + Len(session_resolved_alerts) < MaxQueue

NoCall ==
    [op |-> "init", alert_id |-> None, should_send |-> FALSE,
     is_new |-> FALSE, is_recurring |-> FALSE, queued |-> "none",
     sends |-> <<>>, batches |-> <<>>, open_alerts |-> {}, ret |-> FALSE,
     raised |-> FALSE, discarded |-> 0]

Call(op) == [NoCall EXCEPT !.op = op]

\* the bot has not been called: tg records the latest call of the bot, the
\* update it processed and the messages it handed to send_message
NoBotCall ==
    [op |-> "init", chat_id |-> 0, text |-> <<>>, out |-> <<>>,
     ret |-> FALSE]

\* the main thread is in no broadcast loop; in one, i is the index of the
\* list iterator, out the messages handed to send_message so far, and
\* stayed the chats that have been subscribed since the loop began
NoBroadcast == [pc |-> "idle", i |-> 0, out |-> <<>>, stayed |-> {}]

\* the polling thread is between two updates; inside add_subscriber or
\* remove_subscriber, after the change of the list and before
\* save_subscribers, pc is "mutated"
NoUpdate == [pc |-> "idle", chat_id |-> 0, text |-> <<>>]

\* no stop_polling call has been made; of a call, bot is the object it was
\* made on, waited the seconds spent in join, and exited whether the thread
\* had ended when the call returned
NoStop == [pc |-> "idle", bot |-> 0, waited |-> 0, exited |-> FALSE]

\* ServerMonitor is not checking a server; n sweeps were started. In a
\* sweep, servers is what get_servers() returned and server the index of
\* the one being checked; reading holds cpu_usage or mem_usage right after
\* the step that parsed it
Idle(n) ==
    [pc |-> "idle", n |-> n, servers |-> <<>>, server |-> 0, df |-> <<>>,
     lines |-> <<>>, critical |-> <<>>, service |-> 0, reading |-> <<>>]

---------------------------------------------------------------------------
(* Initial state: no alert_status.json, no session *)

Init ==
    /\ clock = 0
    /\ email_enabled \in BOOLEAN
    /\ telegram_configured \in BOOLEAN
    /\ active_alerts = EmptyDict
    /\ resolved_alerts = EmptyDict
    /\ status_file = AlertStatus(EmptyDict, EmptyDict)
    /\ session_active = FALSE
    /\ session_new_alerts = <<>>
    /\ session_recurring_alerts = <<>>
    /\ session_resolved_alerts = <<>>
    /\ last = NoCall
    /\ decided = EmptyDict
    /\ sweep = Idle(0)
    /\ writable = TRUE
    /\ subscribers = <<>>
    /\ config_subscribers = <<>>
    /\ last_update_id = 0
    /\ processed = <<>>
    /\ tg = NoBotCall
    /\ bcast = NoBroadcast
    /\ upd = NoUpdate
    /\ bots = <<>>
    /\ stopping = NoStop

\* time passes between two calls of the ledger, and between two sweeps
Tick ==
    /\ sweep.pc = "idle"
    /\ clock < MaxClock
    /\ clock' = clock + 1
    /\ last' = Call("tick")
    /\ UNCHANGED <<configVars, ledgerVars, sessionVars, decided, sweep,
                   envVars, botVars>>

---------------------------------------------------------------------------
(* AlertManager.send_alert *)

send_alert(nickname, hostname, message, alert_type_arg, email_ok, telegram_ok) ==
    LET alert_type   == EffectiveAlertType(message, alert_type_arg)
        alert_id     == get_alert_id(nickname, hostname, alert_type)
        now          == clock
        now_str      == Strftime(now)
        is_new_alert == alert_id \notin DOMAIN active_alerts
        is_recurring == alert_id \in DOMAIN resolved_alerts
        should_send_email == ShouldSend(active_alerts, alert_id, now)
        record       == NewAlertRecord(nickname, hostname, alert_type,
                                       message, now_str)
        active1      == ObservedActive(active_alerts, alert_id, record, now)
        resolved1    == ObservedResolved(active_alerts, resolved_alerts,
                                         alert_id)
        alert_data   == [server |-> nickname, hostname |-> hostname,
                         message |-> message, type |-> alert_type,
                         alert_id |-> alert_id, is_new |-> is_new_alert,
                         is_recurring |-> is_recurring]
        queue        == session_active /\ should_send_email
        sends        == ImmediateSends(should_send_email, session_active,
                                       AlertHeading(is_new_alert),
                                       email_ok, telegram_ok)
        active2      == AfterDelivery(active1, AnySent(sends), now_str)
    IN  IF ~writable
        THEN \* save_alert_status raises after the ledger was updated
            /\ active_alerts' = active1
            /\ resolved_alerts' = resolved1
            /\ last' = [Call("send_alert") EXCEPT
                            !.alert_id = alert_id,
                            !.is_new = is_new_alert,
                            !.is_recurring = is_recurring,
                            !.raised = TRUE]
            /\ UNCHANGED <<configVars, status_file, sessionVars, decided>>
        ELSE
        /\ queue => QueueHasRoom
        /\ active_alerts' = active2
        /\ resolved_alerts' = resolved1
        /\ status_file' = AlertStatus(active_alerts', resolved_alerts')
        /\ session_new_alerts' =
              IF queue /\ SessionListOf(is_new_alert) = "new"
              THEN Append(session_new_alerts, alert_data)
              ELSE session_new_alerts
        /\ session_recurring_alerts' =
              IF queue /\ SessionListOf(is_new_alert) = "recurring"
              THEN Append(session_recurring_alerts, alert_data)
              ELSE session_recurring_alerts
        /\ last' = [op |-> "send_alert", alert_id |-> alert_id,
                    should_send |-> should_send_email,
                    is_new |-> is_new_alert, is_recurring |-> is_recurring,
                    queued |-> IF queue THEN SessionListOf(is_new_alert)
                               ELSE "none",
                    sends |-> sends, batches |-> <<>>,
                    open_alerts |-> IF sends # <<>>
                                    THEN OpenAlerts(active1, None) ELSE {},
                    ret |-> IF queue THEN TRUE
                            ELSE AnySent(sends) \/ session_active,
                    raised |-> FALSE, discarded |-> 0]
        /\ decided' = IF should_send_email
                      THEN DictSet(decided, alert_id, now) ELSE decided
        /\ UNCHANGED <<configVars, session_active,
                       session_resolved_alerts>>

---------------------------------------------------------------------------
(* AlertManager.check_alert_resolution *)

\* "if alert_id in active_alerts: if current_value < threshold:"
IsResolution(active, alert_id, current_value, threshold) ==
    alert_id \in DOMAIN active /\ current_value < threshold

\* a resolved record stamped with the time of the last detection
ResolvedRecordStale(alert, resolved_time) ==
    [server         |-> alert.server,
     hostname       |-> alert.hostname,
     type           |-> alert.type,
     message        |-> alert.message,
     first_detected |-> alert.first_detected,
     last_detected  |-> alert.last_detected,
     last_notified  |-> alert.last_notified,
     resolved_time  |-> alert.last_detected]

\* the record moved to resolved_alerts: the popped one, stamped
ResolvedRecord(alert, resolved_time) ==
    [server         |-> alert.server,
     hostname       |-> alert.hostname,
     type           |-> alert.type,
     message        |-> alert.message,
     first_detected |-> alert.first_detected,
     last_detected  |-> alert.last_detected,
     last_notified  |-> alert.last_notified,
     resolved_time  |-> resolved_time]

\* duration_str: "D days, H hours, M minutes" or "H hours, M minutes"
DurationStr(first_detected, resolved_time) ==
    LET secs == resolved_time - first_detected
        days == secs \div 86400
        rest == secs % 86400
    IN  [days |-> days, hours |-> rest \div 3600,
         minutes |-> (rest % 3600) \div 60, with_days |-> days > 0]

\* a lookup under the alert type of the "Server is not reachable" alert
ResolutionAlertIdOfServer(nickname, hostname, metric) ==
    get_alert_id(nickname, hostname, <<"s","e","r","v","e","r">>)

\* the alert id check_alert_resolution looks up
ResolutionAlertId(nickname, hostname, metric) ==
    get_alert_id(nickname, hostname, Lower(metric))

\* the reset after a delivered resolution:
\* "if (email_sent or telegram_sent) and self.alert_status['active_alerts']"
AfterResolutionDelivery(active, sent, resolved_time) ==
    IF sent /\ DOMAIN active # {}
    THEN reset_all_alert_cooldowns(active, resolved_time)
    ELSE active

\* a resolution that forgets the record it popped
StoreResolvedNowhere(resolved, alert_id, alert) == resolved

\* self.alert_status["resolved_alerts"][alert_id] = alert
StoreResolved(resolved, alert_id, alert) == DictSet(resolved, alert_id, alert)

\* a check that reports a resolution when there is nothing to resolve
NoActiveAlertResultTrue(alert_id) ==
    [Call("check_alert_resolution") EXCEPT !.alert_id = alert_id, !.ret = TRUE]

\* what check_alert_resolution does and returns when there is nothing to
\* resolve: "return False"
NoActiveAlertResult(alert_id) ==
    [Call("check_alert_resolution") EXCEPT !.alert_id = alert_id]

check_alert_resolution(nickname, hostname, metric, current_value, threshold, email_ok, telegram_ok) ==
    LET alert_id == ResolutionAlertId(nickname, hostname, metric)
    IN
    IF IsResolution(active_alerts, alert_id, current_value, threshold)
    THEN
        LET resolved_time == Strftime(clock)
            alert     == ResolvedRecord(active_alerts[alert_id], resolved_time)
            active1   == DictDel(active_alerts, alert_id)
            resolved1 == StoreResolved(resolved_alerts, alert_id, alert)
            resolution_data ==
                [server |-> nickname, hostname |-> hostname,
                 metric |-> metric, current_value |-> current_value,
                 threshold |-> threshold, alert_info |-> alert,
                 alert_id |-> alert_id,
                 duration |-> DurationStr(alert.first_detected,
                                          resolved_time)]
            sends     == IF session_active THEN <<>>
                         ELSE Deliveries("RESOLVED", email_ok, telegram_ok)
            active2   == AfterResolutionDelivery(active1, AnySent(sends),
                                                 resolved_time)
        IN  IF ~writable
            THEN \* save_alert_status raises after the record was moved
                /\ active_alerts' = active1
                /\ resolved_alerts' = resolved1
                /\ last' = [Call("check_alert_resolution") EXCEPT
                                !.alert_id = alert_id, !.raised = TRUE]
                /\ UNCHANGED <<configVars, status_file, sessionVars,
                               decided>>
            ELSE
            /\ session_active => QueueHasRoom
            /\ active_alerts' = active2
            /\ resolved_alerts' = resolved1
            /\ status_file' = AlertStatus(active_alerts', resolved_alerts')
            /\ session_resolved_alerts' =
                  IF session_active
                  THEN Append(session_resolved_alerts, resolution_data)
                  ELSE session_resolved_alerts
            /\ last' = [op |-> "check_alert_resolution",
                        alert_id |-> alert_id, should_send |-> TRUE,
                        is_new |-> FALSE, is_recurring |-> FALSE,
                        queued |-> IF session_active THEN "resolved"
                                   ELSE "none",
                        sends |-> sends, batches |-> <<>>,
                        open_alerts |-> IF sends # <<>>
                                        THEN OpenAlerts(active1, alert_id)
                                        ELSE {},
                        ret |-> IF session_active THEN TRUE
                                ELSE AnySent(sends),
                        raised |-> FALSE, discarded |-> 0]
            /\ UNCHANGED <<configVars, session_active,
                           session_new_alerts, session_recurring_alerts,
                           decided>>
    ELSE
        /\ last' = NoActiveAlertResult(alert_id)
        /\ UNCHANGED <<configVars, ledgerVars, sessionVars, decided>>

---------------------------------------------------------------------------
(* AlertManager.start_session, AlertManager.end_session *)

\* the queued items a start_session call drops
Discarded ==
    Len(session_new_alerts) + Len(session_resolved_alerts)
        + Len(session_recurring_alerts)

\* a start_session that goes on with the session that is collecting
start_session_resuming ==
    /\ session_active' = TRUE
    /\ session_new_alerts' =
            IF session_active THEN session_new_alerts ELSE <<>>
    /\ session_resolved_alerts' =
            IF session_active THEN session_resolved_alerts ELSE <<>>
    /\ session_recurring_alerts' =
            IF session_active THEN session_recurring_alerts ELSE <<>>
    /\ last' = [Call("start_session") EXCEPT
                    !.discarded = IF session_active THEN 0 ELSE Discarded]
    /\ UNCHANGED <<configVars, ledgerVars, decided>>

start_session ==
    /\ session_active' = TRUE
    /\ session_new_alerts' = <<>>
    /\ session_resolved_alerts' = <<>>
    /\ session_recurring_alerts' = <<>>
    /\ last' = [Call("start_session") EXCEPT !.discarded = Discarded]
    /\ UNCHANGED <<configVars, ledgerVars, decided>>

\* a batch sender that sends one email and one Telegram message per alert
BatchAlertSendsEach(new_alerts, recurring_alerts, email_ok, telegram_ok) ==
    IF new_alerts = <<>> /\ recurring_alerts = <<>> THEN <<>>
    ELSE IF Len(new_alerts) + Len(recurring_alerts) = 1
    THEN Deliveries("ALERTS", email_ok, telegram_ok)
    ELSE Deliveries("ALERTS", email_ok, telegram_ok)
            \o Deliveries("ALERTS", email_ok, telegram_ok)

\* _send_batch_alerts: one email and one Telegram message for the whole
\* queue of new and recurring alerts
BatchAlertSends(new_alerts, recurring_alerts, email_ok, telegram_ok) ==
    IF new_alerts = <<>> /\ recurring_alerts = <<>> THEN <<>>
    ELSE Deliveries("ALERTS", email_ok, telegram_ok)

\* _send_batch_resolutions
BatchResolutionSends(resolved, email_ok, telegram_ok) ==
    IF resolved = <<>> THEN <<>>
    ELSE Deliveries("RESOLVED BATCH", email_ok, telegram_ok)

\* a batch that sends the resolutions before the alerts
BatchCallsResolutionsFirst(new_alerts, recurring_alerts, resolved) ==
    (IF resolved # <<>>
     THEN <<[kind |-> "resolutions", n |-> Len(resolved)]>>
     ELSE <<>>)
    \o
    (IF new_alerts # <<>> \/ recurring_alerts # <<>>
     THEN <<[kind |-> "alerts",
             n |-> Len(new_alerts) + Len(recurring_alerts)]>>
     ELSE <<>>)

\* the batch senders end_session calls, in the order of the calls, each
\* with the number of queued items it is called for
BatchCalls(new_alerts, recurring_alerts, resolved) ==
    (IF new_alerts # <<>> \/ recurring_alerts # <<>>
     THEN <<[kind |-> "alerts",
             n |-> Len(new_alerts) + Len(recurring_alerts)]>>
     ELSE <<>>)
    \o
    (IF resolved # <<>>
     THEN <<[kind |-> "resolutions", n |-> Len(resolved)]>>
     ELSE <<>>)

end_session(alert_email_ok, alert_telegram_ok, res_email_ok, res_telegram_ok) ==
    IF ~session_active
    THEN /\ last' = Call("end_session")
         /\ UNCHANGED <<configVars, ledgerVars, sessionVars, decided>>
    ELSE
        LET calls == BatchCalls(session_new_alerts,
                                session_recurring_alerts,
                                session_resolved_alerts)
            CallSends(call) ==
                IF call.kind = "alerts"
                THEN BatchAlertSends(session_new_alerts,
                                     session_recurring_alerts,
                                     alert_email_ok, alert_telegram_ok)
                ELSE BatchResolutionSends(session_resolved_alerts,
                                          res_email_ok, res_telegram_ok)
            sends == IF Len(calls) = 0 THEN <<>>
                     ELSE IF Len(calls) = 1 THEN CallSends(calls[1])
                     ELSE CallSends(calls[1]) \o CallSends(calls[2])
            notifications_sent == AnySent(sends)
            active1 == AfterDelivery(active_alerts, notifications_sent,
                                     Strftime(clock))
        IN  IF notifications_sent /\ ~writable
            THEN \* save_alert_status raises before the lists are cleared
                /\ session_active' = FALSE
                /\ active_alerts' = active1
                /\ last' = [Call("end_session") EXCEPT !.sends = sends,
                                                       !.batches = calls,
                                                       !.raised = TRUE]
                /\ UNCHANGED <<configVars, resolved_alerts, status_file,
                               session_new_alerts, session_resolved_alerts,
                               session_recurring_alerts, decided>>
            ELSE
            /\ session_active' = FALSE
            /\ active_alerts' = active1
            /\ status_file' = IF notifications_sent
                              THEN AlertStatus(active_alerts', resolved_alerts)
                              ELSE status_file
            /\ session_new_alerts' = <<>>
            /\ session_resolved_alerts' = <<>>
            /\ session_recurring_alerts' = <<>>
            /\ last' = [Call("end_session") EXCEPT !.sends = sends,
                                                   !.batches = calls]
            /\ UNCHANGED <<configVars, resolved_alerts, decided>>

---------------------------------------------------------------------------
(* The strings ServerMonitor builds and parses *)

W1 == <<"w","1">>
H1 == <<"h","1">>
DB == <<"d","b">>
ROOT == <<"/">>

Digits == <<"0","1","2","3","4","5","6","7","8","9">>

RECURSIVE NumStr(_)
NumStr(n) ==
    IF n < 10 THEN <<Digits[n + 1]>>
    ELSE NumStr(n \div 10) \o <<Digits[(n % 10) + 1]>>

IsDigit(c) == \E d \in 1..10 : Digits[d] = c

DigitValue(c) == (CHOOSE d \in 1..10 : Digits[d] = c) - 1

\* float(s) and int(s) succeed; the command outputs of the model carry
\* whole numbers
IsNumber(s) == s # <<>> /\ \A i \in 1..Len(s) : IsDigit(s[i])

RECURSIVE ParseNumber(_)
ParseNumber(s) ==
    IF Len(s) = 1 THEN DigitValue(s[1])
    ELSE 10 * ParseNumber(SubSeq(s, 1, Len(s) - 1)) + DigitValue(s[Len(s)])

\* sub in s
Contains(s, sub) ==
    \E i \in 1..(Len(s) - Len(sub) + 1) : SubSeq(s, i, i + Len(sub) - 1) = sub

\* s.startswith(prefix)
StartsWith(s, prefix) ==
    Len(s) >= Len(prefix) /\ SubSeq(s, 1, Len(prefix)) = prefix

\* s.rstrip('%')
RECURSIVE RStripPercent(_)
RStripPercent(s) ==
    IF s # <<>> /\ s[Len(s)] = "%"
    THEN RStripPercent(SubSeq(s, 1, Len(s) - 1)) ELSE s

\* The messages are shortened to their first word and the parts that vary.
\* f"CPU usage at {cpu_usage:.1f}%, threshold is {self.cpu_threshold}%"
CpuMessage(cpu_usage) ==
    <<"C","P","U"," ">> \o NumStr(cpu_usage) \o <<"%">>

\* f"Memory usage at {mem_usage:.1f}%, threshold is {self.mem_threshold}%"
MemMessage(mem_usage) ==
    <<"M","e","m","o","r","y"," ">> \o NumStr(mem_usage) \o <<"%">>

\* f"Disk usage for {disk['mount']} at {disk['usage']:.1f}%, threshold ..."
DiskMessage(mount, usage) ==
    <<"D","i","s","k"," ">> \o mount \o <<" ">> \o NumStr(usage) \o <<"%">>

\* f"Service {service} is not running"
ServiceMessage(service) ==
    <<"S","e","r","v","i","c","e"," ">> \o service \o <<" ","d","o","w","n">>

\* f"Server is not reachable: {str(e)}"
UnreachableMessage == <<"S","e","r","v","e","r"," ","n","o">>

\* f"Error checking server: {str(e)}"
ErrorMessage == <<"E","r","r","o","r"," ","c","h","k">>

\* alert_type=f"disk:{disk['mount']}"
DiskAlertType(mount) == <<"d","i","s","k",":">> \o mount

\* alert_type=f"service:{service}"
ServiceAlertType(service) == <<"s","e","r","v","i","c","e",":">> \o service

CpuMetric == <<"C","P","U">>
MemMetric == <<"M","e","m","o","r","y">>

\* f"Disk ({mount_point})"
DiskMetric(mount) == <<"D","i","s","k"," ","(">> \o mount \o <<")">>

\* f"Service ({service})"
ServiceMetric(service) ==
    <<"S","e","r","v","i","c","e"," ","(">> \o service \o <<")">>

CpuThreshold == 80
MemThreshold == 80
DiskThreshold == 85

---------------------------------------------------------------------------
(* A client of AlertManager: any call at any time *)

ClientServers == {[nickname |-> W1, hostname |-> H1]}

\* the calls are those ServerMonitor makes for a CPU reading and for a
\* service, and a resolution under the alert type of the service alert
AlertCalls ==
    {[message |-> CpuMessage(92), alert_type |-> None],
     [message |-> ServiceMessage(DB), alert_type |-> ServiceAlertType(DB)]}

ResolutionCalls ==
    {[metric |-> CpuMetric, current_value |-> 45, threshold |-> CpuThreshold],
     [metric |-> CpuMetric, current_value |-> 80, threshold |-> CpuThreshold],
     [metric |-> ServiceAlertType(DB), current_value |-> 0, threshold |-> 1]}

\* what a channel may answer: a channel that is not enabled is never asked
EmailOutcomes == IF email_enabled THEN BOOLEAN ELSE {FALSE}
TelegramOutcomes == IF telegram_configured THEN BOOLEAN ELSE {FALSE}

SendAlert ==
    /\ sweep.pc = "idle"
    /\ \E s \in ClientServers, c \in AlertCalls,
          email_ok \in EmailOutcomes, telegram_ok \in TelegramOutcomes :
            send_alert(s.nickname, s.hostname, c.message, c.alert_type,
                       email_ok, telegram_ok)
    /\ UNCHANGED <<clock, sweep, envVars, botVars>>

CheckAlertResolution ==
    /\ sweep.pc = "idle"
    /\ \E s \in ClientServers, c \in ResolutionCalls,
          email_ok \in EmailOutcomes, telegram_ok \in TelegramOutcomes :
            check_alert_resolution(s.nickname, s.hostname, c.metric,
                                   c.current_value, c.threshold,
                                   email_ok, telegram_ok)
    /\ UNCHANGED <<clock, sweep, envVars, botVars>>

StartSession ==
    /\ sweep.pc = "idle"
    /\ start_session
    /\ UNCHANGED <<clock, sweep, envVars, botVars>>

EndSession ==
    /\ sweep.pc = "idle"
    /\ \E a, c \in EmailOutcomes, b, d \in TelegramOutcomes :
            end_session(a, b, c, d)
    /\ UNCHANGED <<clock, sweep, envVars, botVars>>

Next ==
    \/ Tick
    \/ SendAlert
    \/ CheckAlertResolution
    \/ StartSession
    \/ EndSession

Spec == Init /\ [][Next]_vars

---------------------------------------------------------------------------
(* ServerMonitor.check_all_servers and ServerMonitor.check_server.  A sweep *)
(* is short against a tick of the clock: time passes between two sweeps.   *)
(* The AI assistant is not configured, so the alert messages are the ones  *)
(* check_server builds.                                                     *)

MaxSweeps == 2

RECURSIVE SplitFrom(_, _)
SplitFrom(s, i) ==
    IF SkipSpaces(s, i) > Len(s) THEN <<>>
    ELSE <<SubSeq(s, SkipSpaces(s, i), WordEnd(s, SkipSpaces(s, i)))>>
            \o SplitFrom(s, WordEnd(s, SkipSpaces(s, i)) + 1)

\* str.split(): the maximal runs of non-blank characters
Split(s) == SplitFrom(s, 1)

Servers ==
    <<[nickname |-> W1, hostname |-> H1, monitored_services |-> <<DB>>]>>

W2 == <<"w","2">>
H2 == <<"h","2">>

\* an inventory of two servers, the second without monitored services
Fleet ==
    <<[nickname |-> W1, hostname |-> H1, monitored_services |-> <<DB>>],
      [nickname |-> W2, hostname |-> H2, monitored_services |-> <<>>]>>

\* the sweeps over the fleet
MaxFleetSweeps == 1

DEV == <<"d">>
SQUASHFS == <<"s","q","u","a","s","h","f","s">>
SNAP == <<"/","s","n","a","p">>
SNAPX == <<"/","s","n","a","p","/","x">>

\* what top prints: nothing, a number, or something float() rejects
CpuOutputs == {<<>>, NumStr(45), NumStr(80), NumStr(92), <<"n","a">>}

\* a line of free: "Mem: total used ..."
MemLine(total, used) ==
    <<"M"," ">> \o NumStr(total) \o <<" ">> \o NumStr(used)

\* what free | grep Mem prints: nothing, a line with the numbers, or a line
\* without them
MemOutputs == {<<>>, MemLine(100, 50), MemLine(100, 90), <<"M">>}

\* a line of df -h: "Filesystem Size Used Avail Use% Mounted on"
DfLine(filesystem, usage, mount) ==
    filesystem \o <<" ","1"," ","1"," ","1"," ">> \o NumStr(usage)
               \o <<"%"," ">> \o mount

TMPFS == <<"t","m","p","f","s">>
DEVTMPFS == <<"d","e","v","t","m","p","f","s">>
SNAPD == <<"s","n","a","p","d">>
FILESYSTEM == <<"F","i","l","e","s","y","s","t","e","m">>
RUN == <<"/","r","u","n">>

\* the lines df -h prints on the server, without the header
DfOutputs ==
    {<<>>,
     <<DfLine(DEV, 50, ROOT)>>,
     <<DfLine(SQUASHFS, 100, SNAPX), DfLine(DEV, 90, ROOT)>>,
     <<DfLine(TMPFS, 100, RUN), DfLine(DEV, 90, ROOT)>>,
     <<DfLine(DEVTMPFS, 100, DEV)>>}

\* a filter that lets every line through
GrepNothing(df_lines) == df_lines

\* grep -v tmpfs | grep -v devtmpfs | grep -v snapd | grep -v Filesystem
GrepV(df_lines) ==
    SelectSeq(df_lines,
              LAMBDA l : /\ ~Contains(l, TMPFS)
                         /\ ~Contains(l, DEVTMPFS)
                         /\ ~Contains(l, SNAPD)
                         /\ ~Contains(l, FILESYSTEM))

\* the lines after .strip().split('\n'): no output is one empty line
DiskOutputAll(df_lines) ==
    IF GrepV(df_lines) = <<>> THEN << <<>> >> ELSE GrepV(df_lines)

\* the server check_server is called for
Server == sweep.servers[sweep.server]

Goto(pc) == [sweep EXCEPT !.pc = pc, !.reading = <<>>]

\* check_server goes on after it parsed a reading
GotoWith(pc, value) == [sweep EXCEPT !.pc = pc, !.reading = <<value>>]

\* a comparison that lets a value equal to the threshold pass
BreachAbove(value, threshold) == value > threshold

\* "if cpu_usage >= self.cpu_threshold", and the same for memory and disks
Breach(value, threshold) == value >= threshold

\* check_server returns and the loop of check_all_servers stops there
ServerDoneAbort == Idle(sweep.n)

\* check_server returns: the loop of check_all_servers goes on
ServerDone ==
    IF sweep.server < Len(sweep.servers)
    THEN [Idle(sweep.n) EXCEPT !.pc = "probe", !.servers = sweep.servers,
                               !.server = sweep.server + 1]
    ELSE Idle(sweep.n)

\* "if 'monitored_services' in server and server['monitored_services']"
ToServices ==
    IF Server.monitored_services # <<>>
    THEN [sweep EXCEPT !.pc = "services", !.df = <<>>, !.lines = <<>>,
                       !.critical = <<>>, !.service = 1]
    ELSE ServerDone

\* a step of check_server that calls nothing of AlertManager
NoLedgerCall ==
    /\ last' = Call("none")
    /\ UNCHANGED <<configVars, ledgerVars, sessionVars, decided>>

\* "except Exception as e": the error alert, and check_server returns False
ErrorAlert(email_ok, telegram_ok) ==
    /\ send_alert(Server.nickname, Server.hostname, ErrorMessage, None,
                  email_ok, telegram_ok)
    /\ sweep' = ServerDone

\* check_all_servers with this inventory: nothing to do when it is empty,
\* else check_server for the first server
StartSweep(servers) ==
    /\ sweep.pc = "idle"
    /\ sweep' = IF servers = <<>>
                THEN Idle(sweep.n + 1)
                ELSE [Idle(sweep.n + 1) EXCEPT !.pc = "probe",
                                               !.servers = servers,
                                               !.server = 1]
    /\ NoLedgerCall
    /\ UNCHANGED <<clock, envVars, botVars>>

CheckAllServers ==
    /\ sweep.n < MaxSweeps
    /\ StartSweep(Servers)

\* check_all_servers when servers.json holds the fleet, or nothing
CheckFleet ==
    /\ sweep.n < MaxFleetSweeps
    /\ \E servers \in {<<>>, Fleet} : StartSweep(servers)

\* socket.create_connection
Probe ==
    /\ sweep.pc = "probe"
    /\ \E reachable \in BOOLEAN,
          email_ok \in EmailOutcomes, telegram_ok \in TelegramOutcomes :
            IF reachable
            THEN /\ NoLedgerCall
                 /\ sweep' = Goto("connect")
            ELSE /\ send_alert(Server.nickname, Server.hostname,
                               UnreachableMessage, None, email_ok, telegram_ok)
                 /\ sweep' = ServerDone
    /\ UNCHANGED <<clock, envVars, botVars>>

\* client.connect
Connect ==
    /\ sweep.pc = "connect"
    /\ \E connected \in BOOLEAN,
          email_ok \in EmailOutcomes, telegram_ok \in TelegramOutcomes :
            IF connected
            THEN /\ NoLedgerCall
                 /\ sweep' = Goto("cpu")
            ELSE ErrorAlert(email_ok, telegram_ok)
    /\ UNCHANGED <<clock, envVars, botVars>>

CheckCpu ==
    /\ sweep.pc = "cpu"
    /\ \E cpu_output \in CpuOutputs,
          email_ok \in EmailOutcomes, telegram_ok \in TelegramOutcomes :
            IF cpu_output = <<>>
            THEN /\ NoLedgerCall
                 /\ sweep' = Goto("mem")
            ELSE IF ~IsNumber(cpu_output)
            THEN ErrorAlert(email_ok, telegram_ok)
            ELSE IF Breach(ParseNumber(cpu_output), CpuThreshold)
            THEN /\ send_alert(Server.nickname, Server.hostname,
                               CpuMessage(ParseNumber(cpu_output)), None,
                               email_ok, telegram_ok)
                 /\ sweep' = GotoWith("mem", ParseNumber(cpu_output))
            ELSE /\ check_alert_resolution(Server.nickname, Server.hostname,
                               CpuMetric, ParseNumber(cpu_output),
                               CpuThreshold, email_ok, telegram_ok)
                 /\ sweep' = GotoWith("mem", ParseNumber(cpu_output))
    /\ UNCHANGED <<clock, envVars, botVars>>

\* mem_usage = (mem_used * 100) / mem_total, to the whole percent
MemUsage(mem_parts) ==
    (ParseNumber(mem_parts[3]) * 100) \div ParseNumber(mem_parts[2])

\* int(mem_parts[1]), int(mem_parts[2]) and the division succeed
MemReadable(mem_parts) ==
    /\ Len(mem_parts) >= 3
    /\ IsNumber(mem_parts[2])
    /\ IsNumber(mem_parts[3])
    /\ ParseNumber(mem_parts[2]) # 0

CheckMemory ==
    /\ sweep.pc = "mem"
    /\ \E mem_output \in MemOutputs,
          email_ok \in EmailOutcomes, telegram_ok \in TelegramOutcomes :
            IF mem_output = <<>>
            THEN /\ NoLedgerCall
                 /\ sweep' = Goto("df")
            ELSE IF ~MemReadable(Split(mem_output))
            THEN ErrorAlert(email_ok, telegram_ok)
            ELSE IF Breach(MemUsage(Split(mem_output)), MemThreshold)
            THEN /\ send_alert(Server.nickname, Server.hostname,
                               MemMessage(MemUsage(Split(mem_output))), None,
                               email_ok, telegram_ok)
                 /\ sweep' = GotoWith("df", MemUsage(Split(mem_output)))
            ELSE /\ check_alert_resolution(Server.nickname, Server.hostname,
                               MemMetric, MemUsage(Split(mem_output)),
                               MemThreshold, email_ok, telegram_ok)
                 /\ sweep' = GotoWith("df", MemUsage(Split(mem_output)))
    /\ UNCHANGED <<clock, envVars, botVars>>

\* the df command was run: disk_output_all, and critical_disks = []
ReadDisks ==
    /\ sweep.pc = "df"
    /\ \E df_lines \in DfOutputs :
            sweep' = [sweep EXCEPT !.pc = "disk_line",
                                   !.reading = <<>>,
                                   !.df = df_lines,
                                   !.lines = DiskOutputAll(df_lines),
                                   !.critical = <<>>]
    /\ NoLedgerCall
    /\ UNCHANGED <<clock, envVars, botVars>>

\* mount_point = parts[5] if len(parts) >= 6 else parts[0]
MountPoint(parts) == IF Len(parts) >= 6 THEN parts[6] ELSE parts[1]

\* should_skip: squashfs and snap filesystems
ShouldSkip(filesystem, mount_point) ==
    \/ Contains(Lower(filesystem), SQUASHFS)
    \/ Contains(mount_point, SNAP \o <<"/">>)
    \/ StartsWith(mount_point, SNAP)

\* what the loop over disk_output_all does with a line: "skip" it (blank,
\* short, special filesystem, ValueError), record a "critical" disk, or
\* ask for a "resolve"
DiskLineVerdict(disk_line) ==
    IF Len(Split(disk_line)) < 5 THEN "skip"
    ELSE IF ShouldSkip(Split(disk_line)[1], MountPoint(Split(disk_line)))
    THEN "skip"
    ELSE IF ~IsNumber(RStripPercent(Split(disk_line)[5])) THEN "skip"
    ELSE IF Breach(ParseNumber(RStripPercent(Split(disk_line)[5])),
                   DiskThreshold)
    THEN "critical"
    ELSE "resolve"

\* the entry appended to critical_disks
CriticalDisk(parts) ==
    [mount |-> MountPoint(parts),
     usage |-> ParseNumber(RStripPercent(parts[5])),
     filesystem |-> parts[1]]

\* the position after a line of df: the next line, the alerts for the
\* critical disks, or the services
AfterDiskLine(critical) ==
    IF Tail(sweep.lines) # <<>>
    THEN [sweep EXCEPT !.lines = Tail(sweep.lines), !.critical = critical]
    ELSE IF critical # <<>>
    THEN [sweep EXCEPT !.pc = "disk_alerts", !.lines = <<>>,
                       !.critical = critical]
    ELSE ToServices

CheckDiskLine ==
    /\ sweep.pc = "disk_line"
    /\ LET parts == Split(Head(sweep.lines))
           verdict == DiskLineVerdict(Head(sweep.lines))
       IN  \E email_ok \in EmailOutcomes, telegram_ok \in TelegramOutcomes :
            IF verdict = "skip"
            THEN /\ NoLedgerCall
                 /\ sweep' = AfterDiskLine(sweep.critical)
            ELSE IF verdict = "critical"
            THEN /\ NoLedgerCall
                 /\ sweep' = AfterDiskLine(
                        Append(sweep.critical, CriticalDisk(parts)))
            ELSE /\ check_alert_resolution(Server.nickname, Server.hostname,
                        DiskMetric(MountPoint(parts)),
                        ParseNumber(RStripPercent(parts[5])),
                        DiskThreshold, email_ok, telegram_ok)
                 /\ sweep' = AfterDiskLine(sweep.critical)
    /\ UNCHANGED <<clock, envVars, botVars>>

\* "for disk in critical_disks": the alert of one critical disk
AlertCriticalDisk ==
    /\ sweep.pc = "disk_alerts"
    /\ LET disk == Head(sweep.critical)
       IN  \E email_ok \in EmailOutcomes, telegram_ok \in TelegramOutcomes :
            send_alert(Server.nickname, Server.hostname,
                       DiskMessage(disk.mount, disk.usage),
                       DiskAlertType(disk.mount), email_ok, telegram_ok)
    /\ sweep' = IF Tail(sweep.critical) # <<>>
                THEN [sweep EXCEPT !.critical = Tail(sweep.critical)]
                ELSE ToServices
    /\ UNCHANGED <<clock, envVars, botVars>>

\* "for service in server['monitored_services']": one service
CheckService ==
    /\ sweep.pc = "services"
    /\ LET service == Server.monitored_services[sweep.service]
       IN  \E is_running \in BOOLEAN,
              email_ok \in EmailOutcomes, telegram_ok \in TelegramOutcomes :
            IF is_running
            THEN check_alert_resolution(Server.nickname, Server.hostname,
                        ServiceMetric(service), 0, 1, email_ok, telegram_ok)
            ELSE send_alert(Server.nickname, Server.hostname,
                        ServiceMessage(service), ServiceAlertType(service),
                        email_ok, telegram_ok)
    /\ sweep' = IF sweep.service < Len(Server.monitored_services)
                THEN [sweep EXCEPT !.service = sweep.service + 1]
                ELSE ServerDone
    /\ UNCHANGED <<clock, envVars, botVars>>

SweepNext ==
    \/ Tick
    \/ CheckAllServers
    \/ Probe
    \/ Connect
    \/ CheckCpu
    \/ CheckMemory
    \/ ReadDisks
    \/ CheckDiskLine
    \/ AlertCriticalDisk
    \/ CheckService

SweepSpec == Init /\ [][SweepNext]_vars

FleetNext ==
    \/ Tick
    \/ CheckFleet
    \/ Probe
    \/ Connect
    \/ CheckCpu
    \/ CheckMemory
    \/ ReadDisks
    \/ CheckDiskLine
    \/ AlertCriticalDisk
    \/ CheckService

FleetSpec == Init /\ [][FleetNext]_vars

---------------------------------------------------------------------------
(* The client of AlertManager on a disk that stops accepting the write of  *)
(* alert_status.json (file system remounted read-only, permissions lost):  *)
(* from then on open(..., 'w') raises and the file keeps its content.      *)

DiskFails ==
    /\ sweep.pc = "idle"
    /\ writable
    /\ writable' = FALSE
    /\ last' = Call("disk")
    /\ UNCHANGED <<clock, configVars, ledgerVars, sessionVars, decided,
                   sweep, botVars>>

FaultNext ==
    \/ Tick
    \/ SendAlert
    \/ CheckAlertResolution
    \/ DiskFails

FaultSpec == Init /\ [][FaultNext]_vars

\* the same disk under the client that also opens and closes sessions,
\* within one tick of the clock
SessionFaultNext ==
    \/ SendAlert
    \/ CheckAlertResolution
    \/ StartSession
    \/ EndSession
    \/ DiskFails

SessionFaultSpec == Init /\ [][SessionFaultNext]_vars

---------------------------------------------------------------------------
(* TelegramBot: the registry of subscribers, the commands of the chats and *)
(* the broadcasts                                                           *)

\* the updates that getUpdates delivers during one run of the model
MaxUpdates == 4

\* message.chat.id of an update; 0 stands for an update without a chat
ChatIds == {1, 2}

\* message['from'] of a chat: chat 2 has no username
FromUser(chat_id) ==
    IF chat_id = 1
    THEN [username |-> <<"a","n","n">>, first_name |-> <<"A","n","n">>]
    ELSE [username |-> None, first_name |-> <<"B","o","b">>]

START == <<"/","s","t","a","r","t">>
SUBSCRIBE == <<"/","s","u","b","s","c","r","i","b","e">>
UNSUBSCRIBE == <<"/","u","n","s","u","b","s","c","r","i","b","e">>
STOP == <<"/","s","t","o","p">>
STATUS == <<"/","s","t","a","t","u","s">>
HELP == <<"/","h","e","l","p">>

\* message.text of an update; the empty text is an update without text
Texts ==
    {START, <<"/","S","t","a","r","t">>, <<"/","S","U","B","S","C","R","I","B","E">>,
     UNSUBSCRIBE, <<"/","S","T","O","P">>, STATUS, HELP, <<"h","i">>, <<>>}

\* the texts process_update replies with
Replies ==
    [welcome        |-> "Welcome to Heimdall Monitoring!",
     already        |-> "You are already subscribed to Heimdall alerts!",
     unsubscribed   |-> "You have been unsubscribed from Heimdall alerts.",
     not_subscribed |-> "You are not currently subscribed.",
     status         |-> "Your Subscription Status",
     no_status      |-> "You are not subscribed. Use /start to subscribe.",
     help           |-> "Heimdall Monitoring Bot Help",
     unknown        |-> "Unknown command. Use /help to see available commands."]

\* a message text; since and total are the fields of the status message
Msg(body) == [body |-> body, since |-> 0, total |-> 0]

\* send_message(chat_id, text), with the outcome of the HTTP request
Sent(chat_id, text, ok) == [chat_id |-> chat_id, text |-> text, ok |-> ok]

IsSubscribed(subs, chat_id) ==
    \E i \in 1..Len(subs) : subs[i].chat_id = chat_id

\* the first entry of the chat in the list
IndexOf(subs, chat_id) ==
    CHOOSE i \in 1..Len(subs) :
        /\ subs[i].chat_id = chat_id
        /\ \A j \in 1..(i - 1) : subs[j].chat_id # chat_id

\* list.pop(i)
Pop(subs, i) == SubSeq(subs, 1, i - 1) \o SubSeq(subs, i + 1, Len(subs))

\* add_subscriber without the look for an existing entry
add_subscriber_again(subs, chat_id, username, first_name, now) ==
    [subscribers |-> Append(subs,
                        [chat_id |-> chat_id, username |-> username,
                         first_name |-> first_name,
                         subscribed_at |-> Strftime(now)]),
     ret |-> ~IsSubscribed(subs, chat_id)]

\* add_subscriber: the list after the call, and what the call returns
add_subscriber(subs, chat_id, username, first_name, now) ==
    IF IsSubscribed(subs, chat_id)
    THEN [subscribers |-> subs, ret |-> FALSE]
    ELSE [subscribers |-> Append(subs,
                              [chat_id |-> chat_id, username |-> username,
                               first_name |-> first_name,
                               subscribed_at |-> Strftime(now)]),
          ret |-> TRUE]

\* remove_subscriber that removes the oldest entry when the chat has none
remove_subscriber_any(subs, chat_id) ==
    IF IsSubscribed(subs, chat_id)
    THEN [subscribers |-> Pop(subs, IndexOf(subs, chat_id)), ret |-> TRUE]
    ELSE [subscribers |-> Pop(subs, 1), ret |-> Len(subs) > 0]

\* remove_subscriber: the list after the call, and what the call returns
remove_subscriber(subs, chat_id) ==
    IF IsSubscribed(subs, chat_id)
    THEN [subscribers |-> Pop(subs, IndexOf(subs, chat_id)), ret |-> TRUE]
    ELSE [subscribers |-> subs, ret |-> FALSE]

\* save_subscribers: the subscribers of config.json after the call; a
\* failure to read or write the file is logged and the file keeps its list
save_subscribers(subs, save_ok) ==
    IF save_ok THEN subs ELSE config_subscribers

\* the reply of /status
StatusReply(subs, chat_id) ==
    IF IsSubscribed(subs, chat_id)
    THEN [body |-> Replies.status,
          since |-> subs[IndexOf(subs, chat_id)].subscribed_at,
          total |-> Len(subs)]
    ELSE Msg(Replies.no_status)

\* process_update for a message of chat_id with this text
process_update(chat_id, text, reply_ok, save_ok) ==
    LET call == [op |-> "process_update", chat_id |-> chat_id,
                 text |-> text, out |-> <<>>, ret |-> FALSE]
        Reply(body) == [call EXCEPT !.out = <<Sent(chat_id, body, reply_ok)>>]
        from_user == FromUser(chat_id)
        added == add_subscriber(subscribers, chat_id, from_user.username,
                                from_user.first_name, clock)
        removed == remove_subscriber(subscribers, chat_id)
    IN  IF chat_id = 0 \/ text = <<>>
        THEN /\ tg' = call
             /\ UNCHANGED <<subscribers, config_subscribers>>
        ELSE IF Lower(text) = START \/ Lower(text) = SUBSCRIBE
        THEN /\ subscribers' = added.subscribers
             /\ config_subscribers' =
                    IF added.ret
                    THEN save_subscribers(added.subscribers, save_ok)
                    ELSE config_subscribers
             /\ tg' = IF added.ret THEN Reply(Msg(Replies.welcome))
                                   ELSE Reply(Msg(Replies.already))
        ELSE IF Lower(text) = UNSUBSCRIBE \/ Lower(text) = STOP
        THEN /\ subscribers' = removed.subscribers
             /\ config_subscribers' =
                    IF removed.ret
                    THEN save_subscribers(removed.subscribers, save_ok)
                    ELSE config_subscribers
             /\ tg' = IF removed.ret THEN Reply(Msg(Replies.unsubscribed))
                                     ELSE Reply(Msg(Replies.not_subscribed))
        ELSE IF Lower(text) = STATUS
        THEN /\ tg' = Reply(StatusReply(subscribers, chat_id))
             /\ UNCHANGED <<subscribers, config_subscribers>>
        ELSE IF Lower(text) = HELP
        THEN /\ tg' = Reply(Msg(Replies.help))
             /\ UNCHANGED <<subscribers, config_subscribers>>
        ELSE /\ tg' = Reply(Msg(Replies.unknown))
             /\ UNCHANGED <<subscribers, config_subscribers>>

\* getUpdates with params offset: Telegram answers with the updates whose
\* id is at least the offset, oldest first; the chats have sent MaxUpdates
\* updates, numbered from 1
Received(offset) == offset

\* a cursor that stays where it was
CursorStays(last_id, update_id) == last_id

\* self.last_update_id = update.get('update_id', self.last_update_id)
CursorAfter(last_id, update_id) == update_id

\* poll_updates: the polling thread, started only when the bot is
\* configured, processes the next update and remembers its id
PollUpdate ==
    /\ telegram_configured
    /\ Received(last_update_id + 1) <= MaxUpdates
    /\ \E chat_id \in ChatIds \cup {0}, text \in Texts,
          reply_ok \in BOOLEAN, save_ok \in BOOLEAN :
            process_update(chat_id, text, reply_ok, save_ok)
    /\ processed' = Append(processed, Received(last_update_id + 1))
    /\ last_update_id' =
          CursorAfter(last_update_id, Received(last_update_id + 1))
    /\ UNCHANGED <<clock, configVars, ledgerVars, sessionVars, historyVars,
                   sweep, envVars, threadVars>>

\* the loop 'for subscriber in self.subscribers: send_message(...)': one
\* message per entry of the list, each with its own outcome
Broadcast(subs, text, oks) ==
    [i \in 1..Len(subs) |-> Sent(subs[i].chat_id, text, oks[i])]

\* a broadcast by op with this text
BroadcastBy(op, text) ==
    /\ \E oks \in [1..Len(subscribers) -> BOOLEAN] :
          LET out == Broadcast(subscribers, text, oks)
          IN  tg' = [op |-> op, chat_id |-> 0, text |-> <<>>, out |-> out,
                     ret |-> \E i \in 1..Len(out) : out[i].ok]
    /\ UNCHANGED <<subscribers, config_subscribers, last_update_id,
                   processed>>
    /\ UNCHANGED <<clock, configVars, ledgerVars, sessionVars, historyVars,
                   sweep, envVars, threadVars>>

\* a call that returns False before any message because the bot is not
\* configured
NotConfigured(op) ==
    /\ tg' = [op |-> op, chat_id |-> 0, text |-> <<>>, out |-> <<>>,
              ret |-> FALSE]
    /\ UNCHANGED <<subscribers, config_subscribers, last_update_id,
                   processed>>
    /\ UNCHANGED <<clock, configVars, ledgerVars, sessionVars, historyVars,
                   sweep, envVars, threadVars>>

SendAlertToAll ==
    IF ~telegram_configured
    THEN NotConfigured("send_alert_to_all")
    ELSE \E is_new_alert \in BOOLEAN :
            BroadcastBy("send_alert_to_all",
                        Msg(IF is_new_alert THEN "NEW ALERT"
                                            ELSE "RECURRING ALERT"))

SendResolutionToAll ==
    IF ~telegram_configured
    THEN NotConfigured("send_resolution_to_all")
    ELSE BroadcastBy("send_resolution_to_all", Msg("ALERT RESOLVED"))

\* _send_batch_alerts calls it only when the bot is configured
SendBatchTelegramAlerts ==
    /\ telegram_configured
    /\ BroadcastBy("_send_batch_telegram_alerts", Msg("HEIMDALL ALERT SUMMARY"))

\* _send_batch_resolutions calls it only when the bot is configured
SendBatchTelegramResolutions ==
    /\ telegram_configured
    /\ BroadcastBy("_send_batch_telegram_resolutions",
                   Msg("HEIMDALL RESOLVED"))

BotNext ==
    \/ Tick
    \/ PollUpdate
    \/ SendAlertToAll
    \/ SendResolutionToAll
    \/ SendBatchTelegramAlerts
    \/ SendBatchTelegramResolutions

BotSpec == Init /\ [][BotNext]_vars

---------------------------------------------------------------------------
(* The polling thread and the main thread on one TelegramBot: start_polling *)
(* runs poll_updates in a thread of its own, so the statements of            *)
(* process_update interleave with the loop of a broadcast in the main       *)
(* thread. Neither takes a lock.                                             *)

\* send_alert_to_all enters its loop over self.subscribers
BeginBroadcast ==
    /\ telegram_configured
    /\ bcast.pc = "idle"
    /\ bcast' = [pc |-> "loop", i |-> 1, out |-> <<>>,
                 stayed |-> {subscribers[i].chat_id :
                                i \in 1..Len(subscribers)}]
    /\ UNCHANGED <<subscribers, config_subscribers, last_update_id,
                   processed, tg, upd, bots, stopping>>
    /\ UNCHANGED <<clock, configVars, ledgerVars, sessionVars, historyVars,
                   sweep, envVars>>

\* one turn of the loop: the list iterator yields the entry at its index,
\* in the list as it is now, and send_message is called for it
BroadcastStep ==
    /\ bcast.pc = "loop"
    /\ bcast.i <= Len(subscribers)
    /\ \E ok \in BOOLEAN :
          bcast' = [bcast EXCEPT
                      !.i = @ + 1,
                      !.out = Append(@, Sent(subscribers[bcast.i].chat_id,
                                             Msg("NEW ALERT"), ok))]
    /\ UNCHANGED <<subscribers, config_subscribers, last_update_id,
                   processed, tg, upd, bots, stopping>>
    /\ UNCHANGED <<clock, configVars, ledgerVars, sessionVars, historyVars,
                   sweep, envVars>>

\* the iterator is exhausted: send_alert_to_all returns sent_count > 0
EndBroadcast ==
    /\ bcast.pc = "loop"
    /\ bcast.i > Len(subscribers)
    /\ tg' = [op |-> "send_alert_to_all", chat_id |-> 0, text |-> <<>>,
              out |-> bcast.out,
              ret |-> \E i \in 1..Len(bcast.out) : bcast.out[i].ok]
    /\ bcast' = NoBroadcast
    /\ UNCHANGED <<subscribers, config_subscribers, last_update_id,
                   processed, upd, bots, stopping>>
    /\ UNCHANGED <<clock, configVars, ledgerVars, sessionVars, historyVars,
                   sweep, envVars>>

\* the polling thread takes the next update, a subscribe or an unsubscribe
\* command, and runs add_subscriber or remove_subscriber up to the change
\* of the list
PollMutate ==
    /\ telegram_configured
    /\ upd.pc = "idle"
    /\ Received(last_update_id + 1) <= MaxUpdates
    /\ \E chat_id \in ChatIds, text \in {START, UNSUBSCRIBE} :
          LET from_user == FromUser(chat_id)
              changed ==
                  IF text = START
                  THEN add_subscriber(subscribers, chat_id,
                                      from_user.username,
                                      from_user.first_name, clock)
                  ELSE remove_subscriber(subscribers, chat_id)
          IN  /\ changed.ret
              /\ subscribers' = changed.subscribers
              /\ upd' = [pc |-> "mutated", chat_id |-> chat_id,
                         text |-> text]
              /\ bcast' = [bcast EXCEPT
                            !.stayed = IF text = START THEN @
                                       ELSE @ \ {chat_id}]
    /\ UNCHANGED <<config_subscribers, last_update_id, processed, tg,
                   bots, stopping>>
    /\ UNCHANGED <<clock, configVars, ledgerVars, sessionVars, historyVars,
                   sweep, envVars>>

\* the rest of the update: save_subscribers, the reply, and the cursor
PollSave ==
    /\ upd.pc = "mutated"
    /\ \E reply_ok \in BOOLEAN, save_ok \in BOOLEAN :
          /\ config_subscribers' = save_subscribers(subscribers, save_ok)
          /\ tg' = [op |-> "process_update", chat_id |-> upd.chat_id,
                    text |-> upd.text,
                    out |-> <<Sent(upd.chat_id,
                                   Msg(IF upd.text = START
                                       THEN Replies.welcome
                                       ELSE Replies.unsubscribed),
                                   reply_ok)>>,
                    ret |-> FALSE]
    /\ processed' = Append(processed, Received(last_update_id + 1))
    /\ last_update_id' =
          CursorAfter(last_update_id, Received(last_update_id + 1))
    /\ upd' = NoUpdate
    /\ UNCHANGED <<subscribers, bcast, bots, stopping>>
    /\ UNCHANGED <<clock, configVars, ledgerVars, sessionVars, historyVars,
                   sweep, envVars>>

RaceNext ==
    \/ Tick
    \/ BeginBroadcast
    \/ BroadcastStep
    \/ EndBroadcast
    \/ PollMutate
    \/ PollSave

RaceSpec == Init /\ [][RaceNext]_vars

---------------------------------------------------------------------------
(* The life of the polling threads: AlertManager.__init__, start_polling,  *)
(* poll_updates and stop_polling, with the time in seconds                  *)

\* the AlertManager objects that one process creates
MaxManagers == 2

\* params 'timeout' of getUpdates: Telegram answers an idle long poll then
LongPollTimeout == 30
\* requests.get(..., timeout=35)
RequestTimeout == 35
\* time.sleep(5) after a failed request
RetrySleep == 5
\* self.polling_thread.join(timeout=5)
JoinTimeout == 5

\* TelegramBot.__init__: no thread, polling_active False
NewBot == [polling_active |-> FALSE, thread |-> "none", pc |-> "top",
           age |-> 0]

\* start_polling of a configured bot: the bot after the call
start_polling(bot) ==
    IF bot.thread = "alive"
    THEN bot
    ELSE [polling_active |-> TRUE, thread |-> "alive", pc |-> "top",
          age |-> 0]

FrameThreads ==
    UNCHANGED <<clock, configVars, ledgerVars, sessionVars, historyVars,
                sweep, envVars, subscribers, config_subscribers,
                last_update_id, processed, tg, bcast, upd>>

\* AlertManager(config): a TelegramBot of its own, started when configured
NewAlertManager ==
    /\ Len(bots) < MaxManagers
    /\ bots' = Append(bots, IF telegram_configured
                            THEN start_polling(NewBot) ELSE NewBot)
    /\ UNCHANGED stopping
    /\ FrameThreads

\* start_polling on a bot that exists
StartPolling ==
    /\ telegram_configured
    /\ \E b \in 1..Len(bots) : bots' = [bots EXCEPT ![b] = start_polling(@)]
    /\ UNCHANGED stopping
    /\ FrameThreads

\* 'while self.polling_active': the thread issues the next getUpdates, or
\* leaves the loop and ends
LoopTop ==
    /\ \E b \in 1..Len(bots) :
          /\ bots[b].thread = "alive"
          /\ bots[b].pc = "top"
          /\ bots' = [bots EXCEPT ![b] =
                        IF @.polling_active
                        THEN [@ EXCEPT !.pc = "request", !.age = 0]
                        ELSE [@ EXCEPT !.thread = "exited"]]
    /\ UNCHANGED stopping
    /\ FrameThreads

\* the request ends: with a response, at the latest when the long poll
\* times out at the server, or with an exception, at the latest when
\* requests gives up; after an exception the thread sleeps
RequestEnds ==
    /\ \E b \in 1..Len(bots) :
          /\ bots[b].thread = "alive"
          /\ bots[b].pc = "request"
          /\ \/ /\ bots[b].age <= LongPollTimeout
                /\ bots' = [bots EXCEPT ![b] =
                              [@ EXCEPT !.pc = "top", !.age = 0]]
             \/ bots' = [bots EXCEPT ![b] =
                           [@ EXCEPT !.pc = "sleep", !.age = 0]]
    /\ UNCHANGED stopping
    /\ FrameThreads

\* time.sleep(5) is over
SleepEnds ==
    /\ \E b \in 1..Len(bots) :
          /\ bots[b].thread = "alive"
          /\ bots[b].pc = "sleep"
          /\ bots[b].age = RetrySleep
          /\ bots' = [bots EXCEPT ![b] = [@ EXCEPT !.pc = "top", !.age = 0]]
    /\ UNCHANGED stopping
    /\ FrameThreads

\* stop_polling up to the join: the flag is cleared
StopPolling ==
    /\ stopping.pc # "join"
    /\ \E b \in 1..Len(bots) :
          /\ bots' = [bots EXCEPT ![b] = [@ EXCEPT !.polling_active = FALSE]]
          /\ stopping' =
                IF bots[b].thread = "none"
                THEN [pc |-> "returned", bot |-> b, waited |-> 0,
                      exited |-> TRUE]
                ELSE [pc |-> "join", bot |-> b, waited |-> 0,
                      exited |-> FALSE]
    /\ FrameThreads

\* join(timeout=5) returns when the thread has ended or the timeout is over,
\* and stop_polling returns
JoinReturns ==
    /\ stopping.pc = "join"
    /\ bots[stopping.bot].thread = "exited" \/ stopping.waited = JoinTimeout
    /\ stopping' = [stopping EXCEPT
                      !.pc = "returned",
                      !.exited = bots[stopping.bot].thread = "exited"]
    /\ UNCHANGED bots
    /\ FrameThreads

\* a thread that has something to do now: time does not pass over it
Due(bot) ==
    /\ bot.thread = "alive"
    /\ \/ bot.pc = "top"
       \/ bot.pc = "request" /\ bot.age = RequestTimeout
       \/ bot.pc = "sleep" /\ bot.age = RetrySleep

\* one second passes
Elapse ==
    /\ \A b \in 1..Len(bots) : ~Due(bots[b])
    /\ stopping.pc = "join" =>
          /\ bots[stopping.bot].thread # "exited"
          /\ stopping.waited < JoinTimeout
    /\ \E b \in 1..Len(bots) : bots[b].thread = "alive"
    /\ bots' = [b \in 1..Len(bots) |->
                  IF bots[b].thread = "alive"
                  THEN [bots[b] EXCEPT !.age = @ + 1] ELSE bots[b]]
    /\ stopping' = IF stopping.pc = "join"
                   THEN [stopping EXCEPT !.waited = @ + 1] ELSE stopping
    /\ FrameThreads

ThreadNext ==
    \/ NewAlertManager
    \/ StartPolling
    \/ LoopTop
    \/ RequestEnds
    \/ SleepEnds
    \/ StopPolling
    \/ JoinReturns
    \/ Elapse

ThreadSpec == Init /\ [][ThreadNext]_vars

---------------------------------------------------------------------------
(* Properties of the ledger *)

\* the step is a send_alert call for alert_id
IsSendAlertFor(alert_id) ==
    last'.op = "send_alert" /\ last'.alert_id = alert_id

\* the ticks between the call and the time recorded in last_notified
SinceNotified(alert_id) ==
    clock - Strptime(active_alerts[alert_id].last_notified)

CooldownTicks == CooldownSeconds * TicksPerSecond

\* the step appends one entry for the alert of the call to the list
QueuedTo(list, list_after) ==
    /\ Len(list_after) = Len(list) + 1
    /\ SubSeq(list_after, 1, Len(list)) = list
    /\ list_after[Len(list_after)].alert_id = last'.alert_id

\* the number of channels a notification is handed to
EnabledChannels ==
    (IF email_enabled THEN 1 ELSE 0) + (IF telegram_configured THEN 1 ELSE 0)

\* C1: in every reachable state of the ledger no alert id is a key of both
\* active_alerts and resolved_alerts.
C1_ActiveResolvedDisjoint ==
    DOMAIN active_alerts \cap DOMAIN resolved_alerts = {}

\* a resolved alert was observed again and is active, next to a resolved one
C1_Witness ==
    /\ last.op = "send_alert"
    /\ last.is_recurring
    /\ last.alert_id \in DOMAIN active_alerts
    /\ DOMAIN resolved_alerts # {}

\* C2, as stated: a send_alert call for F less than the cooldown after the
\* previous should-notify decision for F does not decide to notify again.
C2_OneDecisionPerWindow ==
    [][\A id \in DOMAIN decided :
          (IsSendAlertFor(id) /\ clock - decided[id] < CooldownTicks)
              => ~last'.should_send]_vars

\* C2, amended: a send_alert call for F while F is still active, less than
\* the cooldown after the time recorded in F's last_notified, decides not to
\* notify: it dispatches nothing and queues nothing.
C2_SuppressedWhileActive ==
    [][\A id \in DOMAIN active_alerts :
          (IsSendAlertFor(id) /\ SinceNotified(id) < CooldownTicks)
              => /\ ~last'.should_send
                 /\ last'.sends = <<>>
                 /\ last'.queued = "none"
                 /\ UNCHANGED <<session_new_alerts, session_recurring_alerts,
                                session_resolved_alerts, decided>>]_vars

\* a second call for an alert, later than its notification, was suppressed
C2_Witness ==
    /\ last.op = "send_alert"
    /\ ~last.should_send
    /\ last.alert_id \in DOMAIN decided
    /\ clock > decided[last.alert_id]

\* C3, as stated: a send_alert call for an active F at least the cooldown
\* after the previous should-notify decision for F decides to notify and
\* sets F's last_notified to a strictly later value.
C3_SecondDecisionAfterCooldown ==
    [][\A id \in DOMAIN active_alerts \cap DOMAIN decided :
          (IsSendAlertFor(id) /\ clock - decided[id] >= CooldownTicks)
              => /\ last'.should_send
                 /\ active_alerts'[id].last_notified
                        > active_alerts[id].last_notified]_vars

\* C3, amended: a send_alert call for an active F at least the cooldown
\* after the time recorded in F's last_notified (which every delivered
\* notification of any alert moves) decides to notify and sets F's
\* last_notified to the time of the call, a strictly later value.
C3_NotifiedAfterRecordedCooldown ==
    [][\A id \in DOMAIN active_alerts :
          (IsSendAlertFor(id) /\ SinceNotified(id) >= CooldownTicks)
              => /\ last'.should_send
                 /\ decided'[id] = clock
                 /\ id \in DOMAIN active_alerts'
                 /\ active_alerts'[id].last_notified = Strftime(clock)
                 /\ active_alerts'[id].last_notified
                        > active_alerts[id].last_notified]_vars

\* an active alert was notified a second time, another alert being active
C3_Witness ==
    /\ last.op = "send_alert"
    /\ last.should_send
    /\ ~last.is_new
    /\ Cardinality(DOMAIN active_alerts) = 2
    /\ active_alerts[last.alert_id].last_notified
           > active_alerts[last.alert_id].first_detected

\* C4: a send_alert call for an active F before the cooldown has elapsed
\* sends nothing, sets F's last_detected to the time of the call, writes it
\* to the status file and leaves F's last_notified unchanged.
C4_SuppressedStillDetected ==
    [][\A id \in DOMAIN active_alerts :
          (IsSendAlertFor(id) /\ SinceNotified(id) < CooldownTicks)
              => /\ last'.sends = <<>>
                 /\ last'.queued = "none"
                 /\ active_alerts'[id].last_detected = Strftime(clock)
                 /\ active_alerts'[id].last_notified
                        = active_alerts[id].last_notified
                 /\ status_file'.active_alerts[id].last_detected
                        = Strftime(clock)
                 /\ status_file'
                        = AlertStatus(active_alerts', resolved_alerts')]_vars

\* a suppressed call moved last_detected past first_detected
C4_Witness ==
    /\ last.op = "send_alert"
    /\ ~last.should_send
    /\ last.sends = <<>>
    /\ active_alerts[last.alert_id].last_detected
           > active_alerts[last.alert_id].first_detected
    /\ status_file.active_alerts = active_alerts

\* C5: check_alert_resolution for an alert id that is not in active_alerts
\* changes neither active_alerts nor resolved_alerts nor the status file,
\* sends and queues nothing, and returns False.
C5_ResolveInactiveIsNoOp ==
    [][(/\ last'.op = "check_alert_resolution"
        /\ last'.alert_id \notin DOMAIN active_alerts)
          => /\ UNCHANGED <<ledgerVars, sessionVars>>
             /\ last'.sends = <<>>
             /\ last'.queued = "none"
             /\ last'.ret = FALSE]_vars

\* a resolution was asked for an alert never raised, another being active
C5_Witness ==
    /\ last.op = "check_alert_resolution"
    /\ last.alert_id \notin DOMAIN active_alerts
    /\ last.alert_id \notin DOMAIN resolved_alerts
    /\ DOMAIN active_alerts # {}
    /\ last.ret = FALSE

\* C6: when send_alert observes an F that is in resolved_alerts, the
\* notification is headed and queued as recurring, not as new, and F is
\* removed from resolved_alerts.
C6_ReobservedIsRecurring ==
    [][\A id \in DOMAIN resolved_alerts :
          IsSendAlertFor(id)
              => /\ id \notin DOMAIN resolved_alerts'
                 /\ \A i \in 1..Len(last'.sends) :
                        last'.sends[i].heading = "RECURRING ALERT"
                 /\ last'.queued # "new"]_vars

\* the step is a call check_alert_resolution(nickname, hostname, metric,
\* current_value, threshold) of the client
IsResolutionCall(server, call) ==
    \E email_ok \in EmailOutcomes, telegram_ok \in TelegramOutcomes :
        check_alert_resolution(server.nickname, server.hostname, call.metric,
                               call.current_value, call.threshold,
                               email_ok, telegram_ok)

\* C7: check_alert_resolution for an active F with a value below the
\* threshold moves F's record from active_alerts to resolved_alerts with
\* resolved_time set to the time of the call, writes the status file, and
\* hands a resolution to every enabled channel, or queues it in a session.
C7_ResolutionMovesRecord ==
    [][\A s \in ClientServers, c \in ResolutionCalls :
          LET id == get_alert_id(s.nickname, s.hostname, Lower(c.metric))
          IN  (/\ id \in DOMAIN active_alerts
               /\ c.current_value < c.threshold
               /\ IsResolutionCall(s, c))
              => /\ id \notin DOMAIN active_alerts'
                 /\ id \in DOMAIN resolved_alerts'
                 /\ resolved_alerts'[id].resolved_time = Strftime(clock)
                 /\ \A f \in DOMAIN active_alerts[id] :
                        resolved_alerts'[id][f] = active_alerts[id][f]
                 /\ status_file'
                        = AlertStatus(active_alerts', resolved_alerts')
                 /\ last'.ret = (session_active \/ AnySent(last'.sends))
                 /\ IF session_active
                    THEN /\ last'.sends = <<>>
                         /\ QueuedTo(session_resolved_alerts,
                                     session_resolved_alerts')
                    ELSE /\ Len(last'.sends) = EnabledChannels
                         /\ \A i \in 1..Len(last'.sends) :
                                last'.sends[i].heading = "RESOLVED"
                         /\ UNCHANGED session_resolved_alerts]_vars

\* the CPU alert raised at 92% was resolved by a reading of 45% a second
\* later: active_alerts is empty, resolved_alerts holds the record
C7_Witness ==
    LET id == get_alert_id(W1, H1, Lower(CpuMetric))
    IN  /\ last.op = "check_alert_resolution"
        /\ last.alert_id = id
        /\ last.sends # <<>>
        /\ active_alerts = EmptyDict
        /\ id \in DOMAIN resolved_alerts
        /\ resolved_alerts[id].message = CpuMessage(92)
        /\ resolved_alerts[id].resolved_time > resolved_alerts[id].last_detected
        /\ status_file.resolved_alerts = resolved_alerts

\* C10: while a session is active, no send_alert or check_alert_resolution
\* call hands anything to a channel; a notification that is due is appended
\* to the new, the recurring or the resolved list of the session.
C10_SessionQueuesNotDispatches ==
    [][(/\ session_active
        /\ last'.op \in {"send_alert", "check_alert_resolution"})
          => /\ last'.sends = <<>>
             /\ last'.should_send =>
                  \/ /\ last'.op = "send_alert"
                     /\ last'.is_new
                     /\ QueuedTo(session_new_alerts, session_new_alerts')
                     /\ UNCHANGED <<session_recurring_alerts,
                                    session_resolved_alerts>>
                  \/ /\ last'.op = "send_alert"
                     /\ ~last'.is_new
                     /\ QueuedTo(session_recurring_alerts,
                                 session_recurring_alerts')
                     /\ UNCHANGED <<session_new_alerts,
                                    session_resolved_alerts>>
                  \/ /\ last'.op = "check_alert_resolution"
                     /\ QueuedTo(session_resolved_alerts,
                                 session_resolved_alerts')
                     /\ UNCHANGED <<session_new_alerts,
                                    session_recurring_alerts>>]_vars

\* a collecting session with a channel enabled holds a queued alert and a
\* queued resolution, and nothing was sent
C10_Witness ==
    /\ session_active
    /\ email_enabled \/ telegram_configured
    /\ last.op \in {"send_alert", "check_alert_resolution"}
    /\ last.queued # "none"
    /\ last.sends = <<>>
    /\ session_resolved_alerts # <<>>
    /\ session_new_alerts # <<>> \/ session_recurring_alerts # <<>>

---------------------------------------------------------------------------
(* Properties of the sweep *)

\* C8: when a sweep finds service S running while the alert service:S of
\* the host is active, the resolving call uses the alert id of the raising
\* call and moves the alert from active_alerts to resolved_alerts.
C8_ServiceAlertResolved ==
    [][\A i \in 1..Len(Servers) :
        \A j \in 1..Len(Servers[i].monitored_services) :
          LET id == get_alert_id(Servers[i].nickname, Servers[i].hostname,
                        ServiceAlertType(Servers[i].monitored_services[j]))
          IN  (/\ sweep.pc = "services"
               /\ sweep.server = i
               /\ sweep.service = j
               /\ last'.op = "check_alert_resolution"
               /\ id \in DOMAIN active_alerts)
              => /\ last'.alert_id = id
                 /\ id \notin DOMAIN active_alerts'
                 /\ id \in DOMAIN resolved_alerts']_vars

\* C9: when a sweep finds the usage of mount M below the disk threshold
\* while the alert disk:M of the host is active, the resolving call uses
\* the alert id under which the alert was recorded and moves the alert from
\* active_alerts to resolved_alerts.
C9_DiskAlertResolved ==
    [][\A i \in 1..Len(Servers) :
          (/\ sweep.pc = "disk_line"
           /\ sweep.server = i
           /\ last'.op = "check_alert_resolution")
          => LET id == get_alert_id(Servers[i].nickname, Servers[i].hostname,
                          DiskAlertType(MountPoint(Split(Head(sweep.lines)))))
             IN  id \in DOMAIN active_alerts
                 => /\ last'.alert_id = id
                    /\ id \notin DOMAIN active_alerts'
                    /\ id \in DOMAIN resolved_alerts']_vars

---------------------------------------------------------------------------
(* Properties of the session *)

\* the deliveries of the call that carry the heading
SendsHeaded(heading) ==
    {i \in 1..Len(last'.sends) : last'.sends[i].heading = heading}

\* the call of _send_batch_alerts is the only batch call for alerts
OneAlertBatch ==
    Cardinality({i \in 1..Len(last'.batches) :
                    last'.batches[i].kind = "alerts"}) = 1

\* C11: when N >= 1 alerts were queued between start_session and
\* end_session, end_session hands exactly one alert payload to each enabled
\* channel: one email and one Telegram message text, not N.
C11_OnePayloadPerChannel ==
    [][(/\ session_active
        /\ last'.op = "end_session"
        /\ Len(session_new_alerts) + Len(session_recurring_alerts) >= 1)
          => /\ OneAlertBatch
             /\ Cardinality(SendsHeaded("ALERTS")) = EnabledChannels
             /\ \A i, j \in SendsHeaded("ALERTS") :
                    last'.sends[i].channel = last'.sends[j].channel => i = j
             /\ \A i \in 1..Len(last'.batches) :
                    last'.batches[i].kind = "alerts"
                        => last'.batches[i].n = Len(session_new_alerts)
                               + Len(session_recurring_alerts)]_vars

\* end_session sent a batch of two alerts as one payload on both channels
C11_Witness ==
    /\ last.op = "end_session"
    /\ email_enabled /\ telegram_configured
    /\ \E i \in 1..Len(last.batches) :
           last.batches[i].kind = "alerts" /\ last.batches[i].n = 2
    /\ Cardinality({i \in 1..Len(last.sends) :
                       last.sends[i].heading = "ALERTS"}) = 2

\* the kinds of the batch sends of the call, in their order
BatchKinds == [i \in 1..Len(last'.batches) |-> last'.batches[i].kind]

\* C12: at end_session, when both the new/recurring lists and the resolved
\* list are non-empty exactly two batch sends occur, the alert summary
\* first and the resolution summary second; when only one kind is non-empty
\* exactly that one occurs, and when all lists are empty none occurs.
C12_BatchSendsInOrder ==
    [][(session_active /\ last'.op = "end_session")
          => LET alerts == session_new_alerts # <<>>
                               \/ session_recurring_alerts # <<>>
                 resolutions == session_resolved_alerts # <<>>
             IN  /\ BatchKinds =
                       IF alerts /\ resolutions
                       THEN <<"alerts", "resolutions">>
                       ELSE IF alerts THEN <<"alerts">>
                       ELSE IF resolutions THEN <<"resolutions">>
                       ELSE <<>>
                 /\ Cardinality(SendsHeaded("ALERTS"))
                       = IF alerts THEN EnabledChannels ELSE 0
                 /\ Cardinality(SendsHeaded("RESOLVED BATCH"))
                       = IF resolutions THEN EnabledChannels ELSE 0
                 /\ Len(last'.sends) = Cardinality(SendsHeaded("ALERTS"))
                       + Cardinality(SendsHeaded("RESOLVED BATCH"))
                 /\ \A i \in SendsHeaded("ALERTS"),
                       j \in SendsHeaded("RESOLVED BATCH") : i < j]_vars

\* end_session sent an alert summary and then a resolution summary
C12_Witness ==
    /\ last.op = "end_session"
    /\ email_enabled \/ telegram_configured
    /\ Len(last.batches) = 2
    /\ last.batches[1].kind = "alerts"
    /\ last.batches[2].kind = "resolutions"
    /\ last.sends[1].heading = "ALERTS"
    /\ last.sends[Len(last.sends)].heading = "RESOLVED BATCH"

\* C13: a sweep over all hosts is bracketed by one session: whenever
\* check_all_servers is checking a host a session is active, and no host is
\* being checked when a session starts or ends.
C13_SweepInsideSession ==
    /\ sweep.pc # "idle" => session_active
    /\ last.op \in {"start_session", "end_session"} => sweep.pc = "idle"

---------------------------------------------------------------------------
(* Properties of the delivery *)

\* C14: after an immediate notification (a new alert, a recurring alert or
\* a resolution, outside a session) that succeeded on at least one channel,
\* every record of active_alerts has last_notified equal to the timestamp
\* of the event, and the status file holds the updated ledger.
C14_GlobalResetAfterSend ==
    [][(/\ last'.op \in {"send_alert", "check_alert_resolution"}
        /\ AnySent(last'.sends))
          => /\ \A id \in DOMAIN active_alerts' :
                    active_alerts'[id].last_notified = Strftime(clock)
             /\ status_file'
                    = AlertStatus(active_alerts', resolved_alerts')]_vars

\* a delivered notification moved the last_notified of another, older alert
C14_Witness ==
    /\ last.op \in {"send_alert", "check_alert_resolution"}
    /\ AnySent(last.sends)
    /\ \E id \in DOMAIN active_alerts :
          /\ id # last.alert_id
          /\ active_alerts[id].last_notified = Strftime(clock)
          /\ active_alerts[id].last_notified
                 > active_alerts[id].last_detected
    /\ status_file.active_alerts = active_alerts

\* C15: at end_session, when a batch send succeeded on a channel the
\* cooldown of all active alerts is reset once, to one timestamp for the
\* whole batch; when no batch send succeeded end_session changes the
\* last_notified of no active alert.
C15_OneResetPerBatch ==
    [][(session_active /\ last'.op = "end_session")
          => /\ DOMAIN active_alerts' = DOMAIN active_alerts
             /\ IF AnySent(last'.sends)
                THEN /\ active_alerts' =
                            reset_all_alert_cooldowns(active_alerts,
                                                      Strftime(clock))
                     /\ \A id \in DOMAIN active_alerts' :
                            active_alerts'[id].last_notified
                                = Strftime(clock)
                ELSE active_alerts' = active_alerts]_vars

\* a delivered batch moved the last_notified of an active alert
C15_Witness ==
    /\ last.op = "end_session"
    /\ AnySent(last.sends)
    /\ \E id \in DOMAIN active_alerts :
          /\ active_alerts[id].last_notified = Strftime(clock)
          /\ active_alerts[id].last_notified
                 > active_alerts[id].last_detected

\* the channels that are enabled
EnabledSet ==
    (IF email_enabled THEN {"email"} ELSE {})
        \cup (IF telegram_configured THEN {"telegram"} ELSE {})

\* C16: every notification event is handed to each enabled channel once,
\* whatever the other channel answered: a failed email does not prevent the
\* Telegram attempt, a failed Telegram send does not undo the email, and the
\* event counts as sent when at least one channel succeeded.
C16_ChannelsIndependent ==
    [][/\ \A i \in 1..Len(last'.sends) :
            /\ {last'.sends[j].channel :
                    j \in SendsHeaded(last'.sends[i].heading)} = EnabledSet
            /\ Cardinality(SendsHeaded(last'.sends[i].heading))
                    = Cardinality(EnabledSet)
       /\ (/\ last'.op \in {"send_alert", "check_alert_resolution"}
           /\ last'.should_send
           /\ ~session_active)
             => /\ Len(last'.sends) = EnabledChannels
                /\ last'.ret = AnySent(last'.sends)]_vars

\* the email failed, the Telegram message went out, the event was sent
C16_Witness ==
    /\ last.op \in {"send_alert", "check_alert_resolution"}
    /\ Len(last.sends) = 2
    /\ last.sends[1].channel = "email" /\ ~last.sends[1].ok
    /\ last.sends[2].channel = "telegram" /\ last.sends[2].ok
    /\ last.ret = TRUE

---------------------------------------------------------------------------
(* Properties of the status file *)

\* C17: the ledger is write-through: at the return of every send_alert and
\* check_alert_resolution call the status file equals the ledger in memory.
C17_WriteThrough ==
    (last.op \in {"send_alert", "check_alert_resolution"} /\ ~last.raised)
        => status_file = AlertStatus(active_alerts, resolved_alerts)

\* C18: a call whose write of the status file fails raises, and the ledger
\* in memory does not keep the transition that was not written.
C18_FailedSaveNotCommitted ==
    [][last'.raised => UNCHANGED <<active_alerts, resolved_alerts>>]_vars

---------------------------------------------------------------------------
(* Properties of the Telegram registry *)

BroadcastOps ==
    {"send_alert_to_all", "send_resolution_to_all",
     "_send_batch_telegram_alerts", "_send_batch_telegram_resolutions"}

\* the entry of the registry carries an approval
Approved(sub) == "approved" \in DOMAIN sub /\ sub.approved

\* C19: every message of an alert or resolution broadcast goes to a
\* subscriber that is approved; a pending subscriber gets none.
C19_BroadcastOnlyToApproved ==
    tg.op \in BroadcastOps =>
        \A i \in 1..Len(tg.out) :
            \E j \in 1..Len(subscribers) :
                /\ subscribers[j].chat_id = tg.out[i].chat_id
                /\ Approved(subscribers[j])

UniqueChatIds ==
    \A i, j \in 1..Len(subscribers) :
        subscribers[i].chat_id = subscribers[j].chat_id => i = j

\* the step processes /start or /subscribe, in any case of the letters,
\* from a chat that is in the registry
SubscribeAgain ==
    /\ processed' # processed
    /\ tg'.op = "process_update"
    /\ tg'.chat_id # 0
    /\ Lower(tg'.text) \in {START, SUBSCRIBE}
    /\ IsSubscribed(subscribers, tg'.chat_id)

\* C20: the registry holds at most one entry per chat id, and a subscribe
\* command from a chat that is already subscribed is answered with 'already
\* subscribed' and leaves the registry, subscribed_at included, unchanged.
C20_SubscribeIdempotent ==
    /\ []UniqueChatIds
    /\ [][SubscribeAgain =>
            /\ subscribers' = subscribers
            /\ Len(tg'.out) = 1
            /\ tg'.out[1].chat_id = tg'.chat_id
            /\ tg'.out[1].text = Msg(Replies.already)]_vars

\* chat 1 subscribed in an earlier second, a second chat is subscribed too,
\* and chat 1 has just been told that it is already subscribed
C20_Witness ==
    /\ tg.op = "process_update"
    /\ tg.chat_id = 1
    /\ tg.text = <<"/","S","U","B","S","C","R","I","B","E">>
    /\ tg.out = <<Sent(1, Msg(Replies.already), TRUE)>>
    /\ Len(subscribers) = 2
    /\ \E i \in 1..2 : /\ subscribers[i].chat_id = 1
                       /\ subscribers[i].subscribed_at < Strftime(clock)

\* the step processes an update that is no subscription change: an unknown
\* command, /status, /help, or an unsubscribe from a chat not in the registry
NoRegistryCommand ==
    /\ processed' # processed
    /\ tg'.op = "process_update"
    /\ tg'.chat_id # 0
    /\ tg'.text # <<>>
    /\ Lower(tg'.text) \notin {START, SUBSCRIBE}
    /\ (Lower(tg'.text) \in {UNSUBSCRIBE, STOP}
            => ~IsSubscribed(subscribers, tg'.chat_id))

\* C21: an unknown command, a status command, a help command, or an
\* unsubscribe from a chat that is not subscribed leaves the registry
\* unchanged, in memory and in config.json.
C21_OtherCommandsKeepRegistry ==
    [][NoRegistryCommand =>
          UNCHANGED <<subscribers, config_subscribers>>]_vars

\* chat 2 is not subscribed while chat 1 is, and chat 2 was just told so
\* after its /STOP
C21_Witness ==
    /\ tg.op = "process_update"
    /\ tg.chat_id = 2
    /\ tg.text = <<"/","S","T","O","P">>
    /\ Len(tg.out) = 1
    /\ tg.out[1].text = Msg(Replies.not_subscribed)
    /\ Len(subscribers) = 1
    /\ subscribers[1].chat_id = 1

\* C22: the cursor last_update_id is past every update handed to
\* process_update, whether its reply went out or not, so the next getUpdates
\* does not ask for it again and no update is processed twice.
C22_CursorPastProcessed ==
    \A i \in 1..Len(processed) :
        /\ processed[i] < last_update_id + 1
        /\ \A j \in 1..Len(processed) : processed[i] = processed[j] => i = j

\* the reply to the second update could not be sent
C22_Witness ==
    /\ Len(processed) = 2
    /\ tg.op = "process_update"
    /\ Len(tg.out) = 1
    /\ ~tg.out[1].ok

---------------------------------------------------------------------------
(* Properties of the threads of the bot *)

\* C23: the loop of a broadcast and the change-and-save of add_subscriber or
\* remove_subscriber exclude each other: no broadcast is inside its loop
\* while the polling thread is between the change of the list and its save.
C23_BroadcastExcludesMutation ==
    ~(bcast.pc = "loop" /\ upd.pc = "mutated")

\* C24: after stop_polling the poll loop ends: the request in flight
\* completes or is aborted within the grace period, and the thread has
\* exited when stop_polling returns.
C24_ThreadExitedAtReturn ==
    stopping.pc = "returned" => stopping.exited

\* C25: at most one polling loop is alive in the process: start_polling
\* starts no second one, and a further alert manager starts none.
C25_OnePollingLoop ==
    \A a, b \in 1..Len(bots) :
        (bots[a].thread = "alive" /\ bots[b].thread = "alive") => a = b

---------------------------------------------------------------------------
(* Properties of the sweep over several servers *)

\* the position of check_all_servers after the server being checked
NextServer ==
    IF sweep.server < Len(sweep.servers)
    THEN [Idle(sweep.n) EXCEPT !.pc = "probe", !.servers = sweep.servers,
                               !.server = sweep.server + 1]
    ELSE Idle(sweep.n)

\* C26: a server that fails the probe or the SSH connection gets one
\* send_alert call, its CPU, memory, disk and service checks are skipped, and
\* the sweep goes on with the next server of the inventory; the servers are
\* checked one after the other, each once.
C26_FailedHostOneAlertSweepGoesOn ==
    /\ [][(sweep.pc \in {"probe", "connect"} /\ last'.op = "send_alert")
            => /\ last'.alert_id \in
                    {get_alert_id(Server.nickname, Server.hostname,
                                  Lower(FirstWord(m))) :
                        m \in {UnreachableMessage, ErrorMessage}}
               /\ sweep' = NextServer]_vars
    /\ [][(sweep.pc # "idle" /\ sweep'.server # sweep.server)
            => sweep' = NextServer]_vars

\* the first server of the fleet was unreachable and has its alert, and the
\* second one is being checked
C26_Witness ==
    /\ sweep.server = 2
    /\ sweep.pc = "cpu"
    /\ DOMAIN active_alerts
          = {get_alert_id(W1, H1, Lower(FirstWord(UnreachableMessage)))}

\* the call of the step is the "Error checking server" alert of the server
IsErrorAlert ==
    /\ last'.op = "send_alert"
    /\ last'.alert_id = get_alert_id(Server.nickname, Server.hostname,
                                     Lower(FirstWord(ErrorMessage)))

\* C27: output of a metric command that cannot be parsed makes the check
\* skip that metric: the CPU, memory and disk steps raise no error alert for
\* the server, and after the CPU and the memory step the next metric is
\* checked.
C27_UnparsedMetricSkipped ==
    [][sweep.pc \in {"cpu", "mem", "disk_line"}
          => /\ ~IsErrorAlert
             /\ sweep.pc = "cpu" => sweep'.pc = "mem"
             /\ sweep.pc = "mem" => sweep'.pc = "df"]_vars

\* the line of df is one of a pseudo or read-only file system: its file
\* system is tmpfs, devtmpfs or squashfs, or its mount point is under /snap
IsPseudoMount(disk_line) ==
    /\ Len(Split(disk_line)) >= 5
    /\ \/ Split(disk_line)[1] \in {TMPFS, DEVTMPFS, SQUASHFS}
       \/ StartsWith(MountPoint(Split(disk_line)), SNAP \o <<"/">>)

\* C28: a disk line of tmpfs, devtmpfs, squashfs or of a mount under /snap
\* causes no send_alert and no check_alert_resolution call, whatever its
\* usage: the step for such a line calls nothing and adds no critical disk,
\* and no critical disk comes from such a line.
C28_PseudoMountsIgnored ==
    /\ [][(sweep.pc = "disk_line" /\ IsPseudoMount(Head(sweep.lines)))
            => /\ last'.op = "none"
               /\ sweep'.pc = "disk_line" => sweep'.critical = sweep.critical
               /\ sweep'.pc = "disk_alerts"
                    => sweep'.critical = sweep.critical]_vars
    /\ [](\A i \in 1..Len(sweep.critical) :
            \A j \in 1..Len(sweep.df) :
                (IsPseudoMount(sweep.df[j])
                    => /\ sweep.critical[i].filesystem # Split(sweep.df[j])[1]
                       /\ sweep.critical[i].mount
                            # MountPoint(Split(sweep.df[j]))))

\* df printed a full tmpfs before a full root disk, and the root disk is the
\* one critical disk
C28_Witness ==
    /\ sweep.pc = "disk_alerts"
    /\ sweep.df = <<DfLine(TMPFS, 100, RUN), DfLine(DEV, 90, ROOT)>>
    /\ Len(sweep.critical) = 1
    /\ sweep.critical[1].mount = ROOT

---------------------------------------------------------------------------
(* Properties of the payloads *)

\* C29: the open-alerts snapshot in the payload of a new or recurring alert
\* lists the other active alerts only, not the alert being reported.
C29_SnapshotExcludesReported ==
    (last.op = "send_alert" /\ last.sends # <<>>)
        => last.alert_id \notin last.open_alerts

---------------------------------------------------------------------------
(* Properties of the persisted registry *)

\* the latest update was a subscription change that add_subscriber or
\* remove_subscriber reported as done: the chat got the welcome or the
\* unsubscribed reply
ReportedSuccess ==
    /\ tg.op = "process_update"
    /\ Len(tg.out) = 1
    /\ tg.out[1].text \in {Msg(Replies.welcome), Msg(Replies.unsubscribed)}

\* C30: every change of the registry is persisted: when add_subscriber or
\* remove_subscriber has reported success, the subscribers of config.json are
\* the list in memory.
C30_MutationPersisted ==
    ReportedSuccess => config_subscribers = subscribers

---------------------------------------------------------------------------
(* Readings and ledger calls *)

\* the line of df is a reading: long enough, not skipped, and float() takes
\* its usage
IsDiskReading(disk_line) ==
    /\ Len(Split(disk_line)) >= 5
    /\ ~ShouldSkip(Split(disk_line)[1], MountPoint(Split(disk_line)))
    /\ IsNumber(RStripPercent(Split(disk_line)[5]))

DiskReading(disk_line) == ParseNumber(RStripPercent(Split(disk_line)[5]))

\* the ledger call a reading of CPU or memory has to make
CallFor(value, threshold) ==
    IF value >= threshold THEN "send_alert" ELSE "check_alert_resolution"

\* C31: every parsed reading of CPU, memory or a disk that is not skipped
\* makes exactly one ledger call: send_alert when the value is at or above
\* the threshold, check_alert_resolution when it is below. For a disk the
\* send_alert is made after the loop over the lines of df: the disk is put
\* on critical_disks, and every entry of that list is alerted once before
\* check_server leaves the disks.
C31_OneLedgerCallPerReading ==
    [][/\ (sweep.pc = "cpu" /\ sweep'.reading # <<>>) =>
            /\ last'.op = CallFor(sweep'.reading[1], CpuThreshold)
            /\ last'.alert_id = get_alert_id(Server.nickname, Server.hostname,
                                             <<"c","p","u">>)
       /\ (sweep.pc = "mem" /\ sweep'.reading # <<>>) =>
            /\ last'.op = CallFor(sweep'.reading[1], MemThreshold)
            /\ last'.alert_id = get_alert_id(Server.nickname, Server.hostname,
                                             <<"m","e","m","o","r","y">>)
       /\ (sweep.pc = "disk_line" /\ IsDiskReading(Head(sweep.lines))) =>
            IF DiskReading(Head(sweep.lines)) >= DiskThreshold
            THEN /\ last'.op = "none"
                 /\ Len(sweep'.critical) = Len(sweep.critical) + 1
                 /\ sweep'.critical[Len(sweep'.critical)].usage =
                        DiskReading(Head(sweep.lines))
                 /\ sweep'.pc \in {"disk_line", "disk_alerts"}
            ELSE /\ last'.op = "check_alert_resolution"
                 /\ sweep'.critical = sweep.critical
       /\ (sweep.pc = "disk_line" /\ sweep.critical # <<>>) =>
            /\ sweep'.pc \in {"disk_line", "disk_alerts"}
            /\ Len(sweep'.critical) >= Len(sweep.critical)
       /\ sweep.pc = "disk_alerts" =>
            /\ sweep.critical # <<>>
            /\ last'.op = "send_alert"
            /\ last'.alert_id =
                    get_alert_id(Server.nickname, Server.hostname,
                                 DiskAlertType(Head(sweep.critical).mount))
            /\ IF Tail(sweep.critical) # <<>>
               THEN sweep'.pc = "disk_alerts"
                    /\ sweep'.critical = Tail(sweep.critical)
               ELSE sweep'.pc # "disk_alerts"
      ]_vars

\* a CPU reading equal to the threshold was alerted
C31_Witness ==
    /\ sweep.pc = "mem"
    /\ sweep.reading = <<CpuThreshold>>
    /\ last.op = "send_alert"

\* the ids of the alerts check_server raises for a server that is not
\* reachable and for an error while checking it
HostAlertIds ==
    {get_alert_id(Servers[i].nickname, Servers[i].hostname,
                  Lower(FirstWord(m))) :
        i \in 1..Len(Servers), m \in {UnreachableMessage, ErrorMessage}}

\* C32: an alert of the "Server is not reachable" or of the "Error checking
\* server" path is never resolved: its id is never in resolved_alerts, and
\* once it is in active_alerts no step of any sweep takes it out, also not
\* a sweep that finds the host reachable and every metric healthy.
C32_HostAlertsNeverResolved ==
    /\ [](\A id \in HostAlertIds : id \notin DOMAIN resolved_alerts)
    /\ [][\A id \in HostAlertIds :
            id \in DOMAIN active_alerts => id \in DOMAIN active_alerts']_vars

\* the second sweep reached the server and read a healthy CPU, and the
\* alert of the unreachable server is still active
C32_Witness ==
    /\ sweep.n = 2
    /\ sweep.pc = "mem"
    /\ sweep.reading = <<45>>
    /\ last.op = "check_alert_resolution"
    /\ get_alert_id(W1, H1, Lower(FirstWord(UnreachableMessage)))
          \in DOMAIN active_alerts

\* the call of the step was due and reached nobody: it was queued in the
\* session, or no channel is enabled, or every send failed
UndeliveredAlert ==
    /\ last'.op = "send_alert"
    /\ last'.should_send
    /\ ~AnySent(last'.sends)

\* end_session called a batch sender and no batch send succeeded
UndeliveredBatch ==
    /\ last'.op = "end_session"
    /\ last'.batches # <<>>
    /\ ~AnySent(last'.sends)

C34_FirstObservationKept ==
    [][\A id \in DOMAIN active_alerts \cap DOMAIN active_alerts' :
          /\ active_alerts'[id].first_detected
                = active_alerts[id].first_detected
          /\ active_alerts'[id].message = active_alerts[id].message
          /\ active_alerts'[id].server = active_alerts[id].server
          /\ active_alerts'[id].hostname = active_alerts[id].hostname
          /\ active_alerts'[id].type = active_alerts[id].type
          /\ DOMAIN active_alerts'[id] = DOMAIN active_alerts[id]]_vars

\* the CPU alert was raised at 80%, and a later sweep that read 92% left the
\* message and the time of the first observation in the record
C34_Witness ==
    /\ sweep.pc = "mem"
    /\ sweep.reading = <<92>>
    /\ last.op = "send_alert"
    /\ active_alerts[last.alert_id].message = CpuMessage(80)
    /\ active_alerts[last.alert_id].first_detected
          < active_alerts[last.alert_id].last_detected

\* the step is a send_alert or check_alert_resolution call
IsLedgerCall == last'.op \in {"send_alert", "check_alert_resolution"}

\* C35: a send_alert or check_alert_resolution call for F leaves every other
\* alert G where it was, active or resolved or unknown, and leaves the
\* record of G as it was, but for last_notified of an active G, which is set
\* to the time of the call when a send of the call succeeded.
C35_OtherAlertsUntouched ==
    [][IsLedgerCall =>
          /\ DOMAIN active_alerts' \ {last'.alert_id}
                = DOMAIN active_alerts \ {last'.alert_id}
          /\ DOMAIN resolved_alerts' \ {last'.alert_id}
                = DOMAIN resolved_alerts \ {last'.alert_id}
          /\ \A G \in DOMAIN resolved_alerts \ {last'.alert_id} :
                resolved_alerts'[G] = resolved_alerts[G]
          /\ \A G \in DOMAIN active_alerts \ {last'.alert_id} :
                active_alerts'[G] =
                    IF AnySent(last'.sends)
                    THEN [active_alerts[G] EXCEPT
                            !.last_notified = Strftime(clock)]
                    ELSE active_alerts[G]]_vars

\* a delivered call for one alert moved last_notified of another active
\* alert past the time that one was last detected
C35_Witness ==
    /\ last.op \in {"send_alert", "check_alert_resolution"}
    /\ AnySent(last.sends)
    /\ \E G \in DOMAIN active_alerts \ {last.alert_id} :
          /\ active_alerts[G].last_notified = Strftime(clock)
          /\ active_alerts[G].last_detected < Strftime(clock)

\* C36: the clock never going back, every active record has first_detected
\* at or before last_detected and at or before last_notified, and every
\* resolved record has first_detected at or before resolved_time.
C36_TimestampsOrdered ==
    /\ \A id \in DOMAIN active_alerts :
          /\ active_alerts[id].first_detected
                <= active_alerts[id].last_detected
          /\ active_alerts[id].first_detected
                <= active_alerts[id].last_notified
    /\ \A id \in DOMAIN resolved_alerts :
          resolved_alerts[id].first_detected
                <= resolved_alerts[id].resolved_time

\* an alert detected and notified after it was first detected is active
\* beside a resolved one that lasted, after a session was flushed
C36_Witness ==
    /\ last.op = "end_session"
    /\ last.sends # <<>>
    /\ \E id \in DOMAIN active_alerts :
          /\ active_alerts[id].first_detected
                < active_alerts[id].last_notified
    /\ \E id \in DOMAIN resolved_alerts :
          resolved_alerts[id].first_detected
                < resolved_alerts[id].resolved_time

\* the alerts the ledger knows
Recorded(active, resolved) == DOMAIN active \cup DOMAIN resolved

\* C37: an alert that was recorded stays in the ledger, in exactly one of
\* active_alerts and resolved_alerts, and an alert that leaves
\* resolved_alerts is active after the step.
C37_RecordedForGood ==
    /\ [](DOMAIN active_alerts \cap DOMAIN resolved_alerts = {})
    /\ [][/\ Recorded(active_alerts, resolved_alerts)
                \subseteq Recorded(active_alerts', resolved_alerts')
          /\ DOMAIN resolved_alerts \ DOMAIN resolved_alerts'
                \subseteq DOMAIN active_alerts']_vars

\* an alert was resolved while another one stayed active
C37_Witness ==
    /\ last.op = "check_alert_resolution"
    /\ last.alert_id \in DOMAIN resolved_alerts
    /\ last.alert_id \notin DOMAIN active_alerts
    /\ DOMAIN active_alerts # {}

\* C38: end_session leaves no session and three empty session lists,
\* whether its batch sends succeeded or failed; called without a session it
\* sends nothing and changes neither the ledger nor the session.
C38_EndSessionClearsBatcher ==
    [][last'.op = "end_session" =>
          IF session_active
          THEN /\ ~session_active'
               /\ session_new_alerts' = <<>>
               /\ session_recurring_alerts' = <<>>
               /\ session_resolved_alerts' = <<>>
          ELSE /\ last'.sends = <<>>
               /\ UNCHANGED <<ledgerVars, sessionVars>>]_vars

\* the alerts of the items queued in the session
QueuedIds ==
    {session_new_alerts[i].alert_id : i \in 1..Len(session_new_alerts)}
    \cup {session_recurring_alerts[i].alert_id :
            i \in 1..Len(session_recurring_alerts)}
    \cup {session_resolved_alerts[i].alert_id :
            i \in 1..Len(session_resolved_alerts)}

\* C39: start_session called while a session is collecting drops every item
\* queued so far: the three lists are empty after the call, nothing is sent
\* and the session goes on. The ledger keeps what it recorded for those
\* items: it is left as it is, and every queued alert is in it, active or
\* resolved.
C39_RestartDiscardsQueue ==
    /\ [](QueuedIds \subseteq Recorded(active_alerts, resolved_alerts))
    /\ [][(session_active /\ last'.op = "start_session") =>
            /\ session_active'
            /\ session_new_alerts' = <<>>
            /\ session_recurring_alerts' = <<>>
            /\ session_resolved_alerts' = <<>>
            /\ last'.discarded = Discarded
            /\ last'.sends = <<>>
            /\ last'.batches = <<>>
            /\ UNCHANGED ledgerVars]_vars

\* a start_session call dropped a queued item, and an alert stays active in
\* the ledger with its notification decided
C39_Witness ==
    /\ last.op = "start_session"
    /\ last.discarded > 0
    /\ session_new_alerts = <<>>
    /\ DOMAIN active_alerts \cap DOMAIN decided # {}

\* the calls of send_message the broadcast made for the chat
DeliveriesTo(chat_id) ==
    Cardinality({i \in 1..Len(bcast.out) : bcast.out[i].chat_id = chat_id})

\* C40: when a broadcast returns, send_message was called exactly once for
\* every chat that was subscribed from the start of its loop to the end,
\* whatever the polling thread added to or removed from the list meanwhile.
C40_OthersDeliveredOnce ==
    [][(bcast.pc = "loop" /\ bcast'.pc = "idle")
          => \A chat_id \in bcast.stayed : DeliveriesTo(chat_id) = 1]_vars

===========================================================================
